---- MODULE Spec2Model ----
(***************************************************************************)
(* A model of the LepSoc validation system (package lepsox): the 16 field  *)
(* validators, the row orchestrator validate_row, the dataset QA agent     *)
(* RecordQAAgent and the whole-file run validate_file.                     *)
(*                                                                         *)
(* Python strings are sequences of one-character strings, so that strip,   *)
(* upper, split, tokenisation and date parsing are computed, not assumed.  *)
(* Row and result indices are 0-based as in the code; the sequences that   *)
(* hold them are 1-based, hence the +1 at every subscript.                 *)
(***************************************************************************)
EXTENDS Integers, Sequences, FiniteSets, TLC

VARIABLES
    df,             \* the DataFrame handed to the operation (sequence of rows)
    all_results,    \* the list of row results (validation_results)
    pc,             \* control position of the running operation
    index,          \* validate_file: 0-based position of the next row of df
    valid_indices,  \* validate_file: indices of the rows that were not blank
    df_filtered,    \* validate_file: df.loc[valid_indices].reset_index(drop=True)
    validated_df,   \* validate_file: the corrected output
    runs,           \* number of QA passes made so far
    calls,          \* validate_row: the validator invocations of the last row
    workbook        \* validate_file: the file written to output_path

vars == <<df, all_results, pc, index, valid_indices, df_filtered, validated_df, runs, calls,
         workbook>>

-----------------------------------------------------------------------------
(* Bounds of the model *)

MaxRows == 3        \* rows of a dataset given to the record-uniqueness pass
MaxHallRows == 2    \* rows of a dataset given to hallucination detection
MaxRuns == 2        \* QA passes made on one dataset
MaxRowCalls == 2    \* rows given to validate_row one after the other
MaxFileRows == 3    \* rows of a file given to validate_file

-----------------------------------------------------------------------------
(* Python str operations on character sequences *)

\* str.upper, str.lower and int on single characters
UpperOf ==
    "a" :> "A" @@ "b" :> "B" @@ "c" :> "C" @@ "d" :> "D" @@ "e" :> "E" @@
    "f" :> "F" @@ "g" :> "G" @@ "h" :> "H" @@ "i" :> "I" @@ "j" :> "J" @@
    "k" :> "K" @@ "l" :> "L" @@ "m" :> "M" @@ "n" :> "N" @@ "o" :> "O" @@
    "p" :> "P" @@ "q" :> "Q" @@ "r" :> "R" @@ "s" :> "S" @@ "t" :> "T" @@
    "u" :> "U" @@ "v" :> "V" @@ "w" :> "W" @@ "x" :> "X" @@ "y" :> "Y" @@
    "z" :> "Z"
LowerOf ==
    "A" :> "a" @@ "B" :> "b" @@ "C" :> "c" @@ "D" :> "d" @@ "E" :> "e" @@
    "F" :> "f" @@ "G" :> "g" @@ "H" :> "h" @@ "I" :> "i" @@ "J" :> "j" @@
    "K" :> "k" @@ "L" :> "l" @@ "M" :> "m" @@ "N" :> "n" @@ "O" :> "o" @@
    "P" :> "p" @@ "Q" :> "q" @@ "R" :> "r" @@ "S" :> "s" @@ "T" :> "t" @@
    "U" :> "u" @@ "V" :> "v" @@ "W" :> "w" @@ "X" :> "x" @@ "Y" :> "y" @@
    "Z" :> "z"
DigitOf ==
    "0" :> 0 @@ "1" :> 1 @@ "2" :> 2 @@ "3" :> 3 @@ "4" :> 4 @@ "5" :> 5 @@
    "6" :> 6 @@ "7" :> 7 @@ "8" :> 8 @@ "9" :> 9

LowerLetters == DOMAIN UpperOf
UpperLetters == DOMAIN LowerOf
DigitChars == DOMAIN DigitOf

IsLower(c) == c \in LowerLetters
IsUpper(c) == c \in UpperLetters
IsDigit(c) == c \in DigitChars
SpaceChars == {" ", "\t", "\n", "\r"}
IsSpace(c) == c \in SpaceChars

UpperChar(c) == IF IsLower(c) THEN UpperOf[c] ELSE c
LowerChar(c) == IF IsUpper(c) THEN LowerOf[c] ELSE c

upper(s) == [i \in 1..Len(s) |-> UpperChar(s[i])]
lower(s) == [i \in 1..Len(s) |-> LowerChar(s[i])]

\* position of the first element of seq equal to x, 0 if there is none
RECURSIVE IndexFrom(_, _, _)
IndexFrom(seq, x, i) ==
    IF i > Len(seq) THEN 0 ELSE IF seq[i] = x THEN i ELSE IndexFrom(seq, x, i + 1)

IndexIn(seq, x) == IndexFrom(seq, x, 1)

SetMin(S) == CHOOSE x \in S : \A y \in S : x <= y
SetMax(S) == CHOOSE x \in S : \A y \in S : x >= y

RECURSIVE lstrip(_)
lstrip(s) == IF s # <<>> /\ IsSpace(Head(s)) THEN lstrip(Tail(s)) ELSE s

RECURSIVE rstrip(_)
rstrip(s) == IF s # <<>> /\ IsSpace(s[Len(s)]) THEN rstrip(SubSeq(s, 1, Len(s) - 1)) ELSE s

strip(s) == rstrip(lstrip(s))

\* s.split(sep) for a one-character separator
RECURSIVE split(_, _)
split(s, sep) ==
    LET p == IndexIn(s, sep)
    IN  IF p = 0 THEN <<s>>
        ELSE <<SubSeq(s, 1, p - 1)>> \o split(SubSeq(s, p + 1, Len(s)), sep)

\* int(s) for a sequence of decimal digits
RECURSIVE DigitsValue(_)
DigitsValue(s) ==
    IF s = <<>> THEN 0
    ELSE 10 * DigitsValue(SubSeq(s, 1, Len(s) - 1)) + DigitOf[s[Len(s)]]

AllDigits(s) == \A i \in 1..Len(s) : IsDigit(s[i])

\* F applied to the value of x, x being evaluated once
Bind(x, F(_)) == CHOOSE r \in {F(v) : v \in {x}} : TRUE

\* str.capitalize
capitalize(s) ==
    [i \in 1..Len(s) |-> IF i = 1 THEN UpperChar(s[i]) ELSE LowerChar(s[i])]

\* does sub occur in s at position p
OccursAt(s, sub, p) ==
    p + Len(sub) - 1 <= Len(s) /\ SubSeq(s, p, p + Len(sub) - 1) = sub

\* sub in s
Contains(s, sub) == \E p \in 1..(Len(s) + 1) : OccursAt(s, sub, p)

\* s.replace(old, '', 1): the first occurrence only
remove_first(s, old) ==
    IF ~Contains(s, old) THEN s
    ELSE LET p == SetMin({q \in 1..Len(s) : OccursAt(s, old, q)})
         IN  SubSeq(s, 1, p - 1) \o SubSeq(s, p + Len(old), Len(s))

\* s.replace(old, '') for a non-empty old
RECURSIVE remove(_, _)
remove(s, old) ==
    IF s = <<>> THEN <<>>
    ELSE IF OccursAt(s, old, 1) THEN remove(SubSeq(s, Len(old) + 1, Len(s)), old)
    ELSE <<Head(s)>> \o remove(Tail(s), old)

DigitChar == <<"0", "1", "2", "3", "4", "5", "6", "7", "8", "9">>

\* str(n) for an int n
RECURSIVE NatToStr(_)
NatToStr(n) == IF n < 10 THEN <<DigitChar[n + 1]>>
               ELSE NatToStr(n \div 10) \o <<DigitChar[(n % 10) + 1]>>

IntToStr(n) == IF n < 0 THEN <<"-">> \o NatToStr(0 - n) ELSE NatToStr(n)

\* n printed with at least two digits (strftime's %d, %y, %m)
TwoDigits(n) == IF n < 10 THEN <<"0">> \o NatToStr(n) ELSE NatToStr(n)

\* digits with single underscores between them, as int() accepts them
RECURSIVE IsDigitGroups(_)
IsDigitGroups(s) ==
    /\ s # <<>>
    /\ IsDigit(s[1])
    /\ \/ Len(s) = 1
       \/ IsDigit(s[2]) /\ IsDigitGroups(Tail(s))
       \/ s[2] = "_" /\ Len(s) > 2 /\ IsDigitGroups(SubSeq(s, 3, Len(s)))

WithoutUnderscores(s) == SelectSeq(s, LAMBDA c : c # "_")

\* int(s) for a str s: ok is FALSE where int raises ValueError
ParseInt(s) ==
    LET t == strip(s)
        signed == t # <<>> /\ t[1] \in {"+", "-"}
        body == IF signed THEN Tail(t) ELSE t
    IN  IF IsDigitGroups(body)
        THEN [ok |-> TRUE,
              n |-> IF signed /\ t[1] = "-"
                    THEN 0 - DigitsValue(WithoutUnderscores(body))
                    ELSE DigitsValue(WithoutUnderscores(body))]
        ELSE [ok |-> FALSE, n |-> 0]

-----------------------------------------------------------------------------
(* Regular expressions of the code. A pattern is a sequence of items; the item
   Rep(cls, lo, hi) matches lo..hi characters of the set cls (hi < 0: any
   number), the item Opt(sub) matches the pattern sub or nothing. *)

Rep(cls, lo, hi) == [kind |-> "rep", cls |-> cls, lo |-> lo, hi |-> hi, sub |-> <<>>]
Opt(sub) == [kind |-> "opt", cls |-> {}, lo |-> 0, hi |-> 0, sub |-> sub]
One(cls) == Rep(cls, 1, 1)

\* the positions a match of the pattern can end before, starting at a position of P
RECURSIVE MatchEnds(_, _, _)
MatchEnds(pattern, s, P) ==
    IF pattern = <<>> \/ P = {} THEN P
    ELSE LET item == Head(pattern)
             after ==
                 IF item.kind = "opt" THEN P \cup MatchEnds(item.sub, s, P)
                 ELSE UNION {
                        {p + n : n \in {m \in item.lo..(IF item.hi < 0 \/ item.hi > Len(s) - p + 1
                                                        THEN Len(s) - p + 1 ELSE item.hi) :
                                          \A k \in p..(p + m - 1) : s[k] \in item.cls}}
                        : p \in P}
         IN  MatchEnds(Tail(pattern), s, after)

\* re.search(pattern, s)
re_search(pattern, s) == MatchEnds(pattern, s, 1..(Len(s) + 1)) # {}

\* re.match(pattern + '$', s): $ also matches before a final newline
re_match_to_end(pattern, s) ==
    LET ends == MatchEnds(pattern, s, {1})
    IN  \/ (Len(s) + 1) \in ends
        \/ s # <<>> /\ s[Len(s)] = "\n" /\ Len(s) \in ends

-----------------------------------------------------------------------------
(* Cell values of the DataFrame: a str, an int, a datetime, or the missing
   value NaN; None is Python's None *)

Str(s) == [t |-> "str", s |-> s, n |-> 0]
IntCell(n) == [t |-> "int", s |-> <<>>, n |-> n]
NaN == [t |-> "nan", s |-> <<>>, n |-> 0]
None == [t |-> "none", s |-> <<>>, n |-> 0]
\* a datetime at midnight; n numbers its calendar day as yyyymmdd
DateTime(y, m, d) == [t |-> "datetime", s |-> <<>>, n |-> y * 10000 + m * 100 + d]

isna(v) == v.t \in {"nan", "none"}           \* pd.isna(value)
IsEmptyStr(v) == v.t = "str" /\ v.s = <<>>   \* value == ''
IsBlank_nan_only(v) == isna(v)               \* pd.isna(value)
IsBlank(v) == isna(v) \/ IsEmptyStr(v)       \* pd.isna(value) or value == ''
isstr(v) == v.t = "str"                      \* isinstance(value, str)
isdatetime(v) == v.t = "datetime"            \* isinstance(value, (datetime, pd.Timestamp))

\* bool(value)
truthy(v) ==
    CASE v.t = "str" -> v.s # <<>>
      [] v.t = "int" -> v.n # 0
      [] v.t = "none" -> FALSE
      [] OTHER -> TRUE

\* str(value)
str(v) ==
    CASE v.t = "str" -> v.s
      [] v.t = "nan" -> <<"n", "a", "n">>
      [] v.t = "none" -> <<"N", "o", "n", "e">>
      [] v.t = "int" -> IntToStr(v.n)
      [] OTHER -> NatToStr(v.n \div 10000) \o <<"-">> \o TwoDigits((v.n \div 100) % 100)
                  \o <<"-">> \o TwoDigits(v.n % 100)
                  \o <<" ", "0", "0", ":", "0", "0", ":", "0", "0">>

COLUMN_NAMES == <<"Zone", "Country", "State", "Family", "Genus", "Species",
                  "Sub-species", "County", "State Record", "County Record",
                  "Specific Location", "First Date", "Last Date", "Name",
                  "Comments", "Year">>

Columns == {COLUMN_NAMES[i] : i \in 1..Len(COLUMN_NAMES)}

-----------------------------------------------------------------------------
(* Sample texts *)

s_Y == <<"Y">>
s_N == <<"N">>
s_YES == <<"Y", "E", "S">>
s_1 == <<"1">>
s_TRUE == <<"T", "R", "U", "E">>
s_y_sp == <<" ", "y", " ">>
s_8 == <<"8">>
s_USA == <<"U", "S", "A">>
s_WI == <<"W", "I">>
s_Nymphalidae == <<"N", "y", "m", "p", "h", "a", "l", "i", "d", "a", "e">>
s_Danaus == <<"D", "a", "n", "a", "u", "s">>
s_plexippus == <<"p", "l", "e", "x", "i", "p", "p", "u", "s">>
s_plexippus_sp == <<" ", "p", "l", "e", "x", "i", "p", "p", "u", "s", " ">>
s_gilippus == <<"g", "i", "l", "i", "p", "p", "u", "s">>
s_Door == <<"D", "o", "o", "r">>
s_Dane == <<"D", "a", "n", "e">>
s_Peninsula == <<"P", "e", "n", "i", "n", "s", "u", "l", "a", " ", "S", "t", "a", "t", "e", " ", "P", "a", "r", "k">>
s_15_JUL_24 == <<"1", "5", "-", "J", "U", "L", "-", "2", "4">>
s_01_JAN_20 == <<"0", "1", "-", "J", "A", "N", "-", "2", "0">>
s_01_JAN_22 == <<"0", "1", "-", "J", "A", "N", "-", "2", "2">>
s_1_jan_20 == <<"1", "-", "j", "a", "n", "-", "2", "0">>
s_31_FEB_20 == <<"3", "1", "-", "F", "E", "B", "-", "2", "0">>
s_ABC == <<"A", "B", "C">>
s_2024 == <<"2", "0", "2", "4">>
s_Highway_61 == <<"H", "i", "g", "h", "w", "a", "y", " ", "6", "1">>
s_HWY61 == <<"H", "W", "Y", "6", "1">>
s_Hwy_61 == <<"H", "w", "y", " ", "6", "1">>
s_Hwy_61_Zork == <<"H", "w", "y", " ", "6", "1", " ", "Z", "o", "r", "k">>
s_nr_hwy_61 == <<"n", "r", " ", "h", "w", "y", "_", "6", "1">>
s_Big_Lake_Road == <<"B", "i", "g", " ", "L", "a", "k", "e", " ", "R", "o", "a", "d">>
s_Big_Lk_Rd == <<"B", "i", "g", " ", "L", "k", " ", "R", "d">>
s_Big_Lk_Rd_CR5 == <<"B", "i", "g", " ", "L", "k", " ", "R", "d", " ", "C", "R", "5">>

\* 'Silver Creek Road near Maple Ridge Lodge at County Road 12' (58 characters)
s_long_location ==
    <<"S", "i", "l", "v", "e", "r", " ", "C", "r", "e", "e", "k", " ", "R", "o", "a",
      "d", " ", "n", "e", "a", "r", " ", "M", "a", "p", "l", "e", " ", "R", "i", "d",
      "g", "e", " ", "L", "o", "d", "g", "e", " ", "a", "t", " ", "C", "o", "u", "n",
      "t", "y", " ", "R", "o", "a", "d", " ", "1", "2">>

\* 'Silver Creek Rd nr Maple Ridge Lodge CR 12' (42 characters)
s_short_location ==
    <<"S", "i", "l", "v", "e", "r", " ", "C", "r", "e", "e", "k", " ", "R", "d", " ",
      "n", "r", " ", "M", "a", "p", "l", "e", " ", "R", "i", "d", "g", "e", " ", "L",
      "o", "d", "g", "e", " ", "C", "R", " ", "1", "2">>

\* 'Silver Cr Rd nr Maple Ridge Lodge CR12' (38 characters)
s_fused_location ==
    <<"S", "i", "l", "v", "e", "r", " ", "C", "r", " ", "R", "d", " ", "n", "r", " ",
      "M", "a", "p", "l", "e", " ", "R", "i", "d", "g", "e", " ", "L", "o", "d", "g",
      "e", " ", "C", "R", "1", "2">>

\* 'Silver Creek Rd nr Eagle Falls' (30 characters)
s_invented_location ==
    <<"S", "i", "l", "v", "e", "r", " ", "C", "r", "e", "e", "k", " ", "R", "d", " ",
      "n", "r", " ", "E", "a", "g", "l", "e", " ", "F", "a", "l", "l", "s">>

\* 'Two males and one female nectaring on common milkweed along Highway 61, freshly emerged, captured at the light trap by the bridge' (129 characters)
s_long_comment ==
    <<"T", "w", "o", " ", "m", "a", "l", "e", "s", " ", "a", "n", "d", " ", "o", "n",
      "e", " ", "f", "e", "m", "a", "l", "e", " ", "n", "e", "c", "t", "a", "r", "i",
      "n", "g", " ", "o", "n", " ", "c", "o", "m", "m", "o", "n", " ", "m", "i", "l",
      "k", "w", "e", "e", "d", " ", "a", "l", "o", "n", "g", " ", "H", "i", "g", "h",
      "w", "a", "y", " ", "6", "1", ",", " ", "f", "r", "e", "s", "h", "l", "y", " ",
      "e", "m", "e", "r", "g", "e", "d", ",", " ", "c", "a", "p", "t", "u", "r", "e",
      "d", " ", "a", "t", " ", "t", "h", "e", " ", "l", "i", "g", "h", "t", " ", "t",
      "r", "a", "p", " ", "b", "y", " ", "t", "h", "e", " ", "b", "r", "i", "d", "g",
      "e">>

\* 'males female nect on milkweed Hwy 61' (36 characters)
s_short_comment ==
    <<"m", "a", "l", "e", "s", " ", "f", "e", "m", "a", "l", "e", " ", "n", "e", "c",
      "t", " ", "o", "n", " ", "m", "i", "l", "k", "w", "e", "e", "d", " ", "H", "w",
      "y", " ", "6", "1">>

\* 'males nect on milkweed Hwy 61 Zork' (34 characters)
s_invented_comment ==
    <<"m", "a", "l", "e", "s", " ", "n", "e", "c", "t", " ", "o", "n", " ", "m", "i",
      "l", "k", "w", "e", "e", "d", " ", "H", "w", "y", " ", "6", "1", " ", "Z", "o",
      "r", "k">>

\* ' usa ' (5 characters)
s_usa_sp ==
    <<" ", "u", "s", "a", " ">>

\* 'wi' (2 characters)
s_wi ==
    <<"w", "i">>

\* 'Dane County' (11 characters)
s_Dane_County ==
    <<"D", "a", "n", "e", " ", "C", "o", "u", "n", "t", "y">>

\* 'DANAUS' (6 characters)
s_DANAUS ==
    <<"D", "A", "N", "A", "U", "S">>

\* 'Plexippus' (9 characters)
s_Plexippus ==
    <<"P", "l", "e", "x", "i", "p", "p", "u", "s">>

\* '2024-07-15' (10 characters)
s_2024_07_15 ==
    <<"2", "0", "2", "4", "-", "0", "7", "-", "1", "5">>

\* the sample row of tests/conftest.py
mock_row_data ==
    [c \in Columns |->
        CASE c = "Zone" -> Str(s_8)
          [] c = "Country" -> Str(s_USA)
          [] c = "State" -> Str(s_WI)
          [] c = "Family" -> Str(s_Nymphalidae)
          [] c = "Genus" -> Str(s_Danaus)
          [] c = "Species" -> Str(s_plexippus)
          [] c = "County" -> Str(s_Door)
          [] c = "Specific Location" -> Str(s_Peninsula)
          [] c = "First Date" -> Str(s_15_JUL_24)
          [] c = "Name" -> Str(s_ABC)
          [] c = "Year" -> Str(s_2024)
          [] OTHER -> Str(<<>>)]

-----------------------------------------------------------------------------
(* Row results *)

NoIndex == 0 - 1      \* Python None where an index is expected

EmptyMap == [c \in {} |-> NaN]

\* An entry of a row result's errors or warnings list. prefix and text are the
\* two parts of the message "<prefix>: <text>"; row is the 1-based row number
\* the message names (0 if none), tokens the set of tokens it names.
Message(prefix, text, row, tokens) ==
    [prefix |-> prefix, text |-> text, row |-> row, tokens |-> tokens, args |-> <<>>]

\* A metadata dict: the keys it holds, those of them whose value is truthy, and
\* the values of the keys inat_taxon_id and inat_place_id (None if not held)
NoMetadata == [keys |-> {}, truthy |-> {}, inat_taxon_id |-> None, inat_place_id |-> None]

\* metadata[key] = True
SetFlag(metadata, key) ==
    [metadata EXCEPT !.keys = @ \cup {key}, !.truthy = @ \cup {key}]

\* ValidationResult(field_name, value); correction_type is no attribute of a new
\* ValidationResult ("unset") until a validator assigns it
ValidationResult(field_name, value) ==
    [field_name |-> field_name, value |-> value, is_valid |-> TRUE,
     errors |-> <<>>, warnings |-> <<>>, correction |-> None,
     correction_type |-> "unset", metadata |-> NoMetadata]

\* no file written
NoWorkbook == [kind |-> "none", left |-> <<>>, right |-> <<>>, fills |-> <<>>]

\* validate_row's results container; metadata.fields maps a column to the
\* metadata of its field result
NewRowResult(row_index) ==
    [row_index |-> row_index, is_valid |-> TRUE, errors |-> <<>>, warnings |-> <<>>,
     corrections |-> EmptyMap,
     metadata |-> [fields |-> EmptyMap, hallucination_detected |-> FALSE],
     needs_review |-> FALSE, field_results |-> EmptyMap]

-----------------------------------------------------------------------------
(* RecordQAAgent: record uniqueness (agents/qa_agent.py) *)

MonthNames == << <<"j", "a", "n">>, <<"f", "e", "b">>, <<"m", "a", "r">>, <<"a", "p", "r">>,
                 <<"m", "a", "y">>, <<"j", "u", "n">>, <<"j", "u", "l">>, <<"a", "u", "g">>,
                 <<"s", "e", "p">>, <<"o", "c", "t">>, <<"n", "o", "v">>, <<"d", "e", "c">> >>

IsLeap(y) == y % 4 = 0 /\ (y % 100 # 0 \/ y % 400 = 0)

DaysInMonth(y, m) == IF m = 2 THEN (IF IsLeap(y) THEN 29 ELSE 28)
                     ELSE IF m \in {4, 6, 9, 11} THEN 30 ELSE 31

\* a datetime, or None
NoDate == [none |-> TRUE, y |-> 0, m |-> 0, d |-> 0]
Date(y, m, d) == [none |-> FALSE, y |-> y, m |-> m, d |-> d]

\* datetime(y, m, d): ValueError (None here) unless it is a calendar date
MakeDate(y, m, d) ==
    IF m \in 1..12 /\ d >= 1 /\ d <= DaysInMonth(y, m) THEN Date(y, m, d) ELSE NoDate

DateOrd(dt) == dt.y * 10000 + dt.m * 100 + dt.d

\* datetime.strptime(s, "%d-%b-%y"): one or two digits of day, a month
\* abbreviation in any case, exactly two digits of year, which %y maps to
\* 2000..2068 and 1969..1999
strptime_d_b_y(s) ==
    LET parts == split(s, "-")
    IN  IF Len(parts) # 3 THEN NoDate
        ELSE LET dd == parts[1]
                 mon == IndexIn(MonthNames, lower(parts[2]))
                 yy == parts[3]
             IN  IF /\ Len(dd) \in {1, 2} /\ AllDigits(dd)
                    /\ DigitsValue(dd) \in 1..31
                    /\ mon > 0
                    /\ Len(yy) = 2 /\ AllDigits(yy)
                 THEN MakeDate(IF DigitsValue(yy) <= 68 THEN 2000 + DigitsValue(yy)
                                                        ELSE 1900 + DigitsValue(yy),
                               mon, DigitsValue(dd))
                 ELSE NoDate

parse_date(date_value) ==
    LET date_str == strip(str(date_value))
    IN  IF date_str = <<>> \/ date_str = <<"n", "a", "n">> THEN NoDate
        ELSE strptime_d_b_y(date_str)

\* mutant: the key without its first component and with datetime.min for None,
\* so that an unparseable date sorts first
SortKeyLess_none_first(d1, i1, d2, i2) ==
    LET o1 == IF d1.none THEN 0 ELSE d1.y * 10000 + d1.m * 100 + d1.d
        o2 == IF d2.none THEN 0 ELSE d2.y * 10000 + d2.m * 100 + d2.d
    IN  o1 < o2 \/ (o1 = o2 /\ i1 < i2)

\* the sort key (x[1] is None, x[1] if x[1] else datetime.max, x[2]), compared
\* as Python compares tuples
SortKeyLess(d1, i1, d2, i2) ==
    LET o1 == IF d1.none THEN 99991231 ELSE DateOrd(d1)
        o2 == IF d2.none THEN 99991231 ELSE DateOrd(d2)
    IN  \/ (~d1.none /\ d2.none)
        \/ (d1.none = d2.none /\ o1 < o2)
        \/ (d1.none = d2.none /\ o1 = o2 /\ i1 < i2)

\* date_list.sort(key=...); return date_list[0][0]
_find_earliest_record(data, row_indices) ==
    LET dateOf(i) == parse_date(data[row_indices[i] + 1]["First Date"])
        first == CHOOSE i \in 1..Len(row_indices) :
                    \A j \in 1..Len(row_indices) :
                        j # i => SortKeyLess(dateOf(i), i, dateOf(j), j)
    IN  row_indices[first]

_find_result_index(validation_results, row_idx) ==
    LET hits == {i \in 1..Len(validation_results) :
                    validation_results[i].row_index = row_idx}
    IN  IF hits = {} THEN NoIndex ELSE SetMin(hits) - 1

\* f"{family}|{genus}|{species}|{subspecies}"
SpeciesKey(row) ==
    strip(str(row["Family"])) \o <<"|">> \o strip(str(row["Genus"])) \o <<"|">>
        \o strip(str(row["Species"])) \o <<"|">> \o strip(str(row["Sub-species"]))

HasSpeciesInfo(row) ==
    /\ strip(str(row["Family"])) # <<>>
    /\ strip(str(row["Genus"])) # <<>>
    /\ strip(str(row["Species"])) # <<>>

\* species_groups as the list of its (key, row indices) items in insertion order
RECURSIVE GroupRows(_, _, _)
GroupRows(data, i, groups) ==
    IF i > Len(data) THEN groups
    ELSE IF ~HasSpeciesInfo(data[i]) THEN GroupRows(data, i + 1, groups)
    ELSE LET key == SpeciesKey(data[i])
             at == {g \in 1..Len(groups) : groups[g].key = key}
         IN  GroupRows(data, i + 1,
                 IF at = {} THEN Append(groups, [key |-> key, rows |-> <<i - 1>>])
                 ELSE [groups EXCEPT ![SetMin(at)].rows = Append(@, i - 1)])

_group_by_species(data, validation_results) == GroupRows(data, 1, <<>>)

\* str(value).strip().upper() in ['Y', 'YES', '1', 'TRUE']
IsAffirmative(value) ==
    upper(strip(str(value))) \in {<<"Y">>, <<"Y", "E", "S">>, <<"1">>, <<"T", "R", "U", "E">>}

\* validation_results[result_idx]['is_valid'] = False; ['errors'].append(msg)
AddError(validation_results, result_idx, msg) ==
    IF result_idx = NoIndex THEN validation_results
    ELSE [validation_results EXCEPT ![result_idx + 1].is_valid = FALSE,
                                    ![result_idx + 1].errors = Append(@, msg)]

\* mutant: the loop without its test idx != earliest_idx
RECURSIVE MarkOthers_all(_, _, _, _, _)
MarkOthers_all(validation_results, rows, k, earliest_idx, msg) ==
    IF k > Len(rows) THEN validation_results
    ELSE MarkOthers_all(
            AddError(validation_results,
                     _find_result_index(validation_results, rows[k]), msg),
            rows, k + 1, earliest_idx, msg)

\* the loop "for idx in rows: if idx != earliest_idx: ..." of both record checks
RECURSIVE MarkOthers(_, _, _, _, _)
MarkOthers(validation_results, rows, k, earliest_idx, msg) ==
    IF k > Len(rows) THEN validation_results
    ELSE MarkOthers(
            IF rows[k] # earliest_idx
            THEN AddError(validation_results,
                          _find_result_index(validation_results, rows[k]), msg)
            ELSE validation_results,
            rows, k + 1, earliest_idx, msg)

StateRecordRows(data, row_indices) ==
    SelectSeq(row_indices, LAMBDA idx : IsAffirmative(data[idx + 1]["State Record"]))

DuplicateStateMsg(earliest_idx) ==
    Message("State Record", "Duplicate state record for species", earliest_idx + 1, {})

RECURSIVE StateRecordsFrom(_, _, _, _)
StateRecordsFrom(species_groups, g, data, validation_results) ==
    IF g > Len(species_groups) THEN validation_results
    ELSE LET state_record_rows == StateRecordRows(data, species_groups[g].rows)
         IN  StateRecordsFrom(species_groups, g + 1, data,
                 IF Len(state_record_rows) > 1
                 THEN LET earliest_idx == _find_earliest_record(data, state_record_rows)
                      IN  MarkOthers(validation_results, state_record_rows, 1,
                                     earliest_idx, DuplicateStateMsg(earliest_idx))
                 ELSE validation_results)

_validate_state_records(species_groups, data, validation_results) ==
    StateRecordsFrom(species_groups, 1, data, validation_results)

\* mutant: every county record row of the species in one group
RECURSIVE CountyGroups_one(_, _, _, _)
CountyGroups_one(data, row_indices, k, county_groups) ==
    IF k > Len(row_indices) THEN county_groups
    ELSE LET idx == row_indices[k]
         IN  CountyGroups_one(data, row_indices, k + 1,
                 IF ~IsAffirmative(data[idx + 1]["County Record"]) THEN county_groups
                 ELSE IF county_groups = <<>>
                      THEN <<[county |-> <<>>, rows |-> <<idx>>]>>
                      ELSE [county_groups EXCEPT ![1].rows = Append(@, idx)])

\* county_groups of one species group, as the list of its (county, rows) items
RECURSIVE CountyGroups(_, _, _, _)
CountyGroups(data, row_indices, k, county_groups) ==
    IF k > Len(row_indices) THEN county_groups
    ELSE LET idx == row_indices[k]
             county == strip(str(data[idx + 1]["County"]))
             at == {c \in 1..Len(county_groups) : county_groups[c].county = county}
         IN  CountyGroups(data, row_indices, k + 1,
                 IF ~IsAffirmative(data[idx + 1]["County Record"]) THEN county_groups
                 ELSE IF at = {}
                      THEN Append(county_groups, [county |-> county, rows |-> <<idx>>])
                      ELSE [county_groups EXCEPT ![SetMin(at)].rows = Append(@, idx)])

DuplicateCountyMsg(earliest_idx) ==
    Message("County Record", "Duplicate county record for species", earliest_idx + 1, {})

RECURSIVE CountyDuplicatesFrom(_, _, _, _)
CountyDuplicatesFrom(county_groups, c, data, validation_results) ==
    IF c > Len(county_groups) THEN validation_results
    ELSE LET county_record_rows == county_groups[c].rows
         IN  CountyDuplicatesFrom(county_groups, c + 1, data,
                 IF Len(county_record_rows) > 1
                 THEN LET earliest_idx == _find_earliest_record(data, county_record_rows)
                      IN  MarkOthers(validation_results, county_record_rows, 1,
                                     earliest_idx, DuplicateCountyMsg(earliest_idx))
                 ELSE validation_results)

RECURSIVE CountyRecordsFrom(_, _, _, _)
CountyRecordsFrom(species_groups, g, data, validation_results) ==
    IF g > Len(species_groups) THEN validation_results
    ELSE CountyRecordsFrom(species_groups, g + 1, data,
            CountyDuplicatesFrom(CountyGroups(data, species_groups[g].rows, 1, <<>>),
                                 1, data, validation_results))

_validate_county_records(species_groups, data, validation_results) ==
    CountyRecordsFrom(species_groups, 1, data, validation_results)

validate_record_uniqueness(data, validation_results) ==
    LET species_groups == _group_by_species(data, validation_results)
    IN  _validate_county_records(species_groups, data,
            _validate_state_records(species_groups, data, validation_results))

-----------------------------------------------------------------------------
(* RecordQAAgent: hallucination detection (agents/qa_agent.py) *)

\* \w of the regular expression: letters, digits and the underscore
IsWordChar(c) == IsLower(c) \/ IsUpper(c) \/ IsDigit(c) \/ c = "_"

\* set(re.findall(r'\b[A-Z0-9]+\b', str(text).upper())): the runs of [A-Z0-9]
\* that begin and end at a word boundary
extract_tokens(text) ==
    LET u == upper(text)
        InClass(i) == IsUpper(u[i]) \/ IsDigit(u[i])
    IN  {SubSeq(u, a, b) : <<a, b>> \in
            {ab \in (1..Len(u)) \X (1..Len(u)) :
                /\ ab[1] <= ab[2]
                /\ \A i \in ab[1]..ab[2] : InClass(i)
                /\ (ab[1] = 1 \/ ~IsWordChar(u[ab[1] - 1]))
                /\ (ab[2] = Len(u) \/ ~IsWordChar(u[ab[2] + 1]))}}

LocationAbbreviations ==
    {<<"L", "K">>, <<"R", "V">>, <<"C", "R">>, <<"M", "T">>, <<"R", "D">>,
     <<"H", "W", "Y">>, <<"T", "R">>, <<"S", "H">>, <<"S", "R">>, <<"N", "R">>,
     <<"N">>, <<"S">>, <<"E">>, <<"W">>, <<"C", "A", "M", "P", "G", "D">>,
     <<"M", "I">>, <<"K", "M">>, <<"E", "S", "E">>, <<"W", "S", "W">>,
     <<"N", "N", "E">>, <<"S", "S", "W">>, <<"N", "W">>, <<"N", "E">>, <<"S", "E">>,
     <<"S", "W">>}

CommentAbbreviations ==
    {<<"L", "K">>, <<"R", "V">>, <<"C", "R">>, <<"M", "T">>, <<"R", "D">>,
     <<"H", "W", "Y">>, <<"T", "R">>, <<"S", "H">>, <<"S", "R">>, <<"N", "R">>,
     <<"N">>, <<"S">>, <<"E">>, <<"W">>, <<"C", "A", "M", "P", "G", "D">>,
     <<"M", "I">>, <<"K", "M">>, <<"L", "T">>, <<"M", "V">>, <<"U", "V">>,
     <<"N", "E", "C", "T">>, <<"O", "V", "I", "P", "O", "S">>, <<"B", "A", "S", "K">>}

valid_abbreviations(field) ==
    IF field = "Specific Location" THEN LocationAbbreviations ELSE CommentAbbreviations

HallucinatedTokens(original, shortened, field) ==
    (extract_tokens(str(shortened)) \ extract_tokens(original)) \ valid_abbreviations(field)

HallucinationMsg(field, hallucinated_tokens) ==
    Message(field, "LLM hallucination detected - added content not in original",
            0, hallucinated_tokens)

\* a variant of the block that reports the tokens but keeps the correction
CheckField_keeps_correction(data, i, result, field) ==
    IF /\ field \in DOMAIN result.corrections
       /\ field \in DOMAIN result.field_results
       /\ "ai_shortened" \in result.field_results[field].metadata.truthy
    THEN LET hallucinated_tokens ==
                 HallucinatedTokens(strip(str(data[i + 1][field])),
                                    result.corrections[field], field)
         IN  IF hallucinated_tokens # {}
             THEN [result EXCEPT
                      !.is_valid = FALSE,
                      !.errors = Append(@, HallucinationMsg(field, hallucinated_tokens)),
                      !.metadata.hallucination_detected = TRUE]
             ELSE result
    ELSE result

\* one of the two "Check ... field" blocks of the loop body
CheckField(data, i, result, field) ==
    IF /\ field \in DOMAIN result.corrections
       /\ field \in DOMAIN result.field_results
       /\ "ai_shortened" \in result.field_results[field].metadata.truthy
    THEN LET original == strip(str(data[i + 1][field]))
             shortened == result.corrections[field]
             hallucinated_tokens == HallucinatedTokens(original, shortened, field)
         IN  IF hallucinated_tokens # {}
             THEN [result EXCEPT
                      !.is_valid = FALSE,
                      !.errors = Append(@, HallucinationMsg(field, hallucinated_tokens)),
                      !.metadata.hallucination_detected = TRUE,
                      !.corrections = [c \in (DOMAIN @) \ {field} |-> @[c]]]
             ELSE result
    ELSE result

\* the body of "for i, result in enumerate(validation_results)"
CheckRow(data, i, result) ==
    IF result.row_index = NoIndex THEN result
    ELSE CheckField(data, i, CheckField(data, i, result, "Specific Location"), "Comments")

validate_hallucinations(data, validation_results) ==
    [i \in 1..Len(validation_results) |-> CheckRow(data, i - 1, validation_results[i])]

-----------------------------------------------------------------------------
(* Field validators: what validate(value, row_data) returns. row_data is the
   dict of the row shared by the 16 validators of one row: its 16 cells and
   the two keys the Species and County validators add (None while absent). *)

ContextKeys == {"_inat_taxon_id", "_inat_place_id"}

\* to_dict, had the context been kept on the crew between rows: the keys of
\* the context start with what the row validated last left in them
to_dict_kept_context(row) ==
    [k \in Columns \cup ContextKeys |->
        IF k \in Columns THEN row[k]
        ELSE IF all_results = <<>> THEN None
        ELSE LET last == all_results[Len(all_results)].field_results
             IN  IF k = "_inat_taxon_id"
                 THEN IF "Species" \in DOMAIN last
                      THEN last["Species"].metadata.inat_taxon_id ELSE None
                 ELSE IF "County" \in DOMAIN last
                      THEN last["County"].metadata.inat_place_id ELSE None]

\* row_data.to_dict()
to_dict(row) == [k \in Columns \cup ContextKeys |-> IF k \in Columns THEN row[k] ELSE None]

\* the validator returned result, or raised the exception exc
Returned(result, row_data) ==
    [raised |-> FALSE, exc |-> "", result |-> result, row_data |-> row_data]
Raised(exc, result, row_data) ==
    [raised |-> TRUE, exc |-> exc, result |-> result, row_data |-> row_data]

\* an entry of a field result's errors or warnings: the text with {} where the
\* code interpolates a value, and the interpolated values as strings
FieldMessage(text, args) == [text |-> text, args |-> args]

Invalid(result) == [result EXCEPT !.is_valid = FALSE]
AppendError(result, text, args) == [result EXCEPT !.errors = Append(@, FieldMessage(text, args))]
Fail(result, text, args) == AppendError(Invalid(result), text, args)
Warn(result, text, args) == [result EXCEPT !.warnings = Append(@, FieldMessage(text, args))]
\* a correction that makes up for the failure it answers
Correct_validating(result, correction, correction_type) ==
    [result EXCEPT !.correction = correction, !.correction_type = correction_type,
                   !.is_valid = TRUE]
Correct(result, correction, correction_type) ==
    [result EXCEPT !.correction = correction, !.correction_type = correction_type]
Flag(result, key) == [result EXCEPT !.metadata = SetFlag(@, key)]
\* metadata[key] = value for a value that is not a flag
Note(result, key, value) ==
    [result EXCEPT !.metadata.keys = @ \cup {key},
                   !.metadata.truthy = IF truthy(value) THEN @ \cup {key} ELSE @ \ {key}]

\* int(value): ok is FALSE where it raises ValueError or TypeError
int(value) ==
    CASE value.t = "str" -> ParseInt(value.s)
      [] value.t = "int" -> [ok |-> TRUE, n |-> value.n]
      [] OTHER -> [ok |-> FALSE, n |-> 0]

VALID_ZONES == 1..12

\* VALID_COUNTRIES, had it held the code GBR as well
VALID_COUNTRIES_with_GBR ==
    {<<"U", "S", "A">>, <<"C", "A", "N">>, <<"M", "E", "X">>, <<"G", "B", "R">>}

VALID_COUNTRIES == {
    <<"U", "S", "A">>, <<"C", "A", "N">>, <<"M", "E", "X">>}

US_STATES == {
    <<"A", "L">>, <<"A", "K">>, <<"A", "Z">>, <<"A", "R">>, <<"C", "A">>,
    <<"C", "O">>, <<"C", "T">>, <<"D", "E">>, <<"F", "L">>, <<"G", "A">>,
    <<"H", "I">>, <<"I", "D">>, <<"I", "L">>, <<"I", "N">>, <<"I", "A">>,
    <<"K", "S">>, <<"K", "Y">>, <<"L", "A">>, <<"M", "E">>, <<"M", "D">>,
    <<"M", "A">>, <<"M", "I">>, <<"M", "N">>, <<"M", "S">>, <<"M", "O">>,
    <<"M", "T">>, <<"N", "E">>, <<"N", "V">>, <<"N", "H">>, <<"N", "J">>,
    <<"N", "M">>, <<"N", "Y">>, <<"N", "C">>, <<"N", "D">>, <<"O", "H">>,
    <<"O", "K">>, <<"O", "R">>, <<"P", "A">>, <<"R", "I">>, <<"S", "C">>,
    <<"S", "D">>, <<"T", "N">>, <<"T", "X">>, <<"U", "T">>, <<"V", "T">>,
    <<"V", "A">>, <<"W", "A">>, <<"W", "V">>, <<"W", "I">>, <<"W", "Y">>,
    <<"D", "C">>}

CAN_PROVINCES == {
    <<"A", "B">>, <<"B", "C">>, <<"M", "B">>, <<"N", "B">>, <<"N", "L">>,
    <<"N", "S">>, <<"N", "T">>, <<"N", "U">>, <<"O", "N">>, <<"P", "E">>,
    <<"Q", "C">>, <<"S", "K">>, <<"Y", "T">>}

MEX_STATES == {
    <<"A", "G", "U">>, <<"B", "C", "N">>, <<"B", "C", "S">>,
    <<"C", "A", "M">>, <<"C", "H", "P">>, <<"C", "H", "H">>,
    <<"C", "O", "A">>, <<"C", "O", "L">>, <<"C", "M", "X">>,
    <<"D", "U", "R">>, <<"G", "U", "A">>, <<"G", "R", "O">>,
    <<"H", "I", "D">>, <<"J", "A", "L">>, <<"M", "E", "X">>,
    <<"M", "I", "C">>, <<"M", "O", "R">>, <<"N", "A", "Y">>,
    <<"N", "L", "E">>, <<"O", "A", "X">>, <<"P", "U", "E">>,
    <<"Q", "U", "E">>, <<"R", "O", "O">>, <<"S", "L", "P">>,
    <<"S", "I", "N">>, <<"S", "O", "N">>, <<"T", "A", "B">>,
    <<"T", "A", "M">>, <<"T", "L", "A">>, <<"V", "E", "R">>,
    <<"Y", "U", "C">>, <<"Z", "A", "C">>}

COMMON_FAMILIES == {
    <<"H", "e", "s", "p", "e", "r", "i", "i", "d", "a", "e">>,
    <<"P", "a", "p", "i", "l", "i", "o", "n", "i", "d", "a", "e">>,
    <<"P", "i", "e", "r", "i", "d", "a", "e">>,
    <<"L", "y", "c", "a", "e", "n", "i", "d", "a", "e">>,
    <<"R", "i", "o", "d", "i", "n", "i", "d", "a", "e">>,
    <<"N", "y", "m", "p", "h", "a", "l", "i", "d", "a", "e">>,
    <<"G", "e", "o", "m", "e", "t", "r", "i", "d", "a", "e">>,
    <<"E", "r", "e", "b", "i", "d", "a", "e">>,
    <<"N", "o", "c", "t", "u", "i", "d", "a", "e">>,
    <<"N", "o", "t", "o", "d", "o", "n", "t", "i", "d", "a", "e">>,
    <<"S", "p", "h", "i", "n", "g", "i", "d", "a", "e">>,
    <<"S", "a", "t", "u", "r", "n", "i", "i", "d", "a", "e">>,
    <<"L", "a", "s", "i", "o", "c", "a", "m", "p", "i", "d", "a", "e">>,
    <<"M", "e", "g", "a", "l", "o", "p", "y", "g", "i", "d", "a", "e">>,
    <<"L", "i", "m", "a", "c", "o", "d", "i", "d", "a", "e">>,
    <<"C", "r", "a", "m", "b", "i", "d", "a", "e">>,
    <<"P", "y", "r", "a", "l", "i", "d", "a", "e">>,
    <<"T", "o", "r", "t", "r", "i", "c", "i", "d", "a", "e">>,
    <<"C", "o", "s", "s", "i", "d", "a", "e">>,
    <<"S", "e", "s", "i", "i", "d", "a", "e">>}

(* agents/geographic.py *)

ZoneValidator(value, row_data) ==
    LET result == ValidationResult("Zone", value)
    IN  IF IsBlank(value)
        THEN IF IsBlank(row_data["Country"]) /\ IsBlank(row_data["State"])
             THEN Returned(Warn(result, "Zone is missing (empty row)", <<>>), row_data)
             ELSE Returned(Fail(result, "Zone is required", <<>>), row_data)
        ELSE LET zone_num == int(value)
             IN  IF ~zone_num.ok
                 THEN Returned(Fail(result, "Zone must be numeric, got {}", <<str(value)>>),
                               row_data)
                 ELSE IF zone_num.n \notin VALID_ZONES
                 THEN Returned(Fail(result, "Zone must be between 1-12, got {}",
                                    <<IntToStr(zone_num.n)>>), row_data)
                 ELSE Returned(Correct(result, IntCell(zone_num.n), "normalization"), row_data)

CountryValidator(value, row_data) ==
    LET result == ValidationResult("Country", value)
    IN  IF IsBlank(value)
        THEN IF IsBlank(row_data["Zone"]) /\ IsBlank(row_data["State"])
             THEN Returned(Warn(result, "Country is missing (empty row)", <<>>), row_data)
             ELSE Returned(Fail(result, "Country is required", <<>>), row_data)
        ELSE LET value_upper == strip(upper(str(value)))
                 r1 == IF value_upper \notin VALID_COUNTRIES
                       THEN Fail(result, "Country must be USA, CAN, or MEX, got {}",
                                 <<str(value)>>)
                       ELSE result
                 r2 == IF Len(value_upper) # 3
                       THEN Fail(r1, "Country must be exactly 3 characters", <<>>)
                       ELSE r1
             IN  Returned(Correct(r2, Str(value_upper), "normalization"), row_data)

StateValidator(value, row_data) ==
    LET result == ValidationResult("State", value)
    IN  IF IsBlank(value)
        THEN IF IsBlank(row_data["Zone"]) /\ IsBlank(row_data["Country"])
             THEN Returned(Warn(result, "State is missing (empty row)", <<>>), row_data)
             ELSE Returned(Fail(result, "State/Province is required", <<>>), row_data)
        ELSE IF ~isstr(row_data["Country"])
        \* row_data.get('Country', '').upper() on a value that is no str
        THEN Raised("AttributeError", result, row_data)
        ELSE LET state == strip(upper(str(value)))
                 country == upper(row_data["Country"].s)
                 r1 == CASE country = <<"U", "S", "A">> /\ state \notin US_STATES ->
                                Fail(result, "Invalid US state: {}", <<state>>)
                         [] country = <<"C", "A", "N">> /\ state \notin CAN_PROVINCES ->
                                Fail(result, "Invalid Canadian province: {}", <<state>>)
                         [] country = <<"M", "E", "X">> /\ state \notin MEX_STATES ->
                                Warn(result, "Please verify Mexican state code: {}", <<state>>)
                         [] OTHER -> result
                 r2 == IF Len(state) > 3
                       THEN Fail(r1, "State/Province must be 3 characters or less", <<>>)
                       ELSE r1
             IN  Returned(Correct(r2, Str(state), "normalization"), row_data)

(* Answers of the iNaturalist adapter (integrations/inat.py) as the validators
   see them. kind is "valid" or "invalid" for the dict the adapter returns,
   "raise" where the call raises, "no_adapter" where the validator was given
   no adapter. *)

\* check_species / check_location: the dict's 'valid', its taxon_id or place_id
\* and hierarchy_mismatch
LookupAnswer(kind, id, hierarchy_mismatch) ==
    [kind |-> kind, id |-> id, hierarchy_mismatch |-> hierarchy_mismatch]

Found(id) == LookupAnswer("valid", id, FALSE)
FoundMismatch(id) == LookupAnswer("valid", id, TRUE)
NotFound == LookupAnswer("invalid", None, FALSE)
LookupRaises == LookupAnswer("raise", None, FALSE)
NoAdapter == LookupAnswer("no_adapter", None, FALSE)
\* the dict check_species and check_location return in mock mode, after a
\* timeout and on an MCP error: 'valid' is False as for a name that was not
\* found, and no validator reads its 'error' or 'needs_manual_review'
Unreachable ==
    [kind |-> "invalid", id |-> None, hierarchy_mismatch |-> FALSE, needs_manual_review |-> TRUE]

\* check_record_status: kind "counted" for a dict with is_new_record and
\* existing_count (count), "error" for a dict with 'error'
CountAnswer(kind, count) == [kind |-> kind, count |-> count]

\* 'is_new_record', had the adapter reported every count as a new record
IsNewRecord_always(answer) == answer.count >= 0

\* 'is_new_record' of the dict check_record_status returns: total == 0
IsNewRecord(answer) == answer.count = 0

\* result.metadata[key] = id for key inat_taxon_id or inat_place_id
NoteId(result, key, id) ==
    LET noted == Note(result, key, id)
    IN  IF key = "inat_taxon_id" THEN [noted EXCEPT !.metadata.inat_taxon_id = id]
        ELSE [noted EXCEPT !.metadata.inat_place_id = id]

(* agents/taxonomic.py *)

FamilyValidator(value, row_data, answer) ==
    LET result == ValidationResult("Family", value)
    IN  IF IsBlank(value)
        THEN Returned(Fail(result, "Family is required", <<>>), row_data)
        ELSE LET family == strip(str(value))
                 family_normalized == capitalize(family)
                 r1 == IF family # family_normalized
                       THEN Correct(result, Str(family_normalized), "normalization")
                       ELSE result
                 r2 == IF Len(family) > 20
                       THEN Fail(r1, "Family exceeds 20 characters: {}", <<IntToStr(Len(family))>>)
                       ELSE r1
                 r3 == CASE answer.kind = "valid" ->
                                Note(NoteId(r2, "inat_taxon_id", answer.id), "inat_rank", None)
                         [] answer.kind = "invalid" ->
                                Flag(Fail(r2, "Family '{}' not found in iNaturalist",
                                          <<family_normalized>>), "needs_human_review")
                         [] answer.kind = "raise" ->
                                Warn(r2, "Could not verify family with iNaturalist: {}", <<>>)
                         [] OTHER -> r2
             IN  Returned(r3, row_data)

GenusValidator(value, row_data) ==
    LET result == ValidationResult("Genus", value)
    IN  IF IsBlank(value)
        THEN Returned(Fail(result, "Genus is required", <<>>), row_data)
        ELSE LET genus == strip(str(value))
                 genus_normalized == capitalize(genus)
                 r1 == IF genus # genus_normalized
                       THEN Correct(result, Str(genus_normalized), "normalization")
                       ELSE result
                 r2 == IF Len(genus) > 20
                       THEN Fail(r1, "Genus exceeds 20 characters: {}", <<IntToStr(Len(genus))>>)
                       ELSE r1
             IN  Returned(Flag(r2, "needs_inat_check"), row_data)

SpeciesValidator(value, row_data, answer) ==
    LET result == ValidationResult("Species", value)
    IN  IF IsBlank(value)
        THEN Returned(Fail(result, "Species is required", <<>>), row_data)
        ELSE LET species == lower(strip(str(value)))
                 r1 == IF Len(species) > 18
                       THEN Fail(result, "Species exceeds 18 characters: {}",
                                 <<IntToStr(Len(species))>>)
                       ELSE result
                 r2 == IF species # strip(str(value))
                       THEN Correct(r1, Str(species), "normalization")
                       ELSE r1
                 genus == row_data["Genus"]
                 family == row_data["Family"]
             IN  IF answer.kind = "no_adapter" \/ ~truthy(genus)
                 THEN Returned(r2, row_data)
                 ELSE CASE answer.kind = "valid" ->
                        LET r3 == Note(NoteId(r2, "inat_taxon_id", answer.id),
                                       "inat_common_name", None)
                            r4 == IF answer.hierarchy_mismatch
                                  THEN Note(Warn(r3, "Family mismatch: '{}' should be '{}' based on genus/species",
                                                 <<str(family)>>),
                                            "suggested_family", Str(<<"?">>))
                                  ELSE r3
                        IN  Returned(r4, [row_data EXCEPT !["_inat_taxon_id"] = answer.id])
                      [] answer.kind = "invalid" ->
                        Returned(Flag(Fail(r2, "Species '{} {}' not found in iNaturalist",
                                           <<str(genus), species>>), "needs_human_review"),
                                 row_data)
                      [] OTHER ->
                        Returned(Warn(r2, "Could not verify with iNaturalist: {}", <<>>), row_data)

SubspeciesValidator(value, row_data, answer) ==
    LET result == ValidationResult("Sub-species", value)
    IN  IF IsBlank(value)
        THEN Returned(result, row_data)
        ELSE LET subspecies == lower(strip(str(value)))
                 r1 == IF Len(subspecies) > 16
                       THEN Fail(result, "Sub-species exceeds 16 characters: {}",
                                 <<IntToStr(Len(subspecies))>>)
                       ELSE result
                 r2 == IF subspecies # strip(str(value))
                       THEN Correct(r1, Str(subspecies), "normalization")
                       ELSE r1
                 genus == row_data["Genus"]
                 species == row_data["Species"]
                 family == row_data["Family"]
                 trinomial == str(genus) \o <<" ">> \o str(species) \o <<" ">> \o subspecies
             IN  IF \/ answer.kind = "no_adapter"
                    \/ ~(truthy(genus) /\ truthy(species) /\ subspecies # <<>>)
                 THEN Returned(r2, row_data)
                 ELSE CASE answer.kind = "valid" ->
                        LET r3 == Note(Note(NoteId(r2, "inat_taxon_id", answer.id),
                                            "inat_common_name", None),
                                       "validated_trinomial", Str(trinomial))
                            r4 == IF answer.hierarchy_mismatch
                                  THEN Note(Warn(r3, "Family mismatch: '{}' should be '{}' based on trinomial name",
                                                 <<str(family)>>),
                                            "suggested_family", Str(<<"?">>))
                                  ELSE r3
                        IN  Returned(r4, row_data)
                      [] answer.kind = "invalid" ->
                        Returned(Flag(Fail(r2, "Subspecies '{}' not found in iNaturalist",
                                           <<trinomial>>), "needs_human_review"),
                                 row_data)
                      [] OTHER ->
                        Returned(Warn(r2, "Could not verify subspecies with iNaturalist: {}", <<>>),
                                 row_data)

(* agents/geographic.py, continued *)

s_County == <<"C", "o", "u", "n", "t", "y">>
s_Province == <<"P", "r", "o", "v", "i", "n", "c", "e">>
s_Territory == <<"T", "e", "r", "r", "i", "t", "o", "r", "y">>

CountyValidator(value, row_data, answer) ==
    LET result == ValidationResult("County", value)
    IN  IF IsBlank(value)
        THEN Returned(Fail(result, "County is required", <<>>), row_data)
        ELSE LET county0 == strip(str(value))
                 r1 == IF Len(county0) > 20
                       THEN Fail(result, "County exceeds 20 characters: {}",
                                 <<IntToStr(Len(county0))>>)
                       ELSE result
                 has_suffix == \/ Contains(county0, s_County)
                               \/ Contains(county0, s_Province)
                               \/ Contains(county0, s_Territory)
                 county_cleaned ==
                     strip(remove(remove(remove(county0, s_County), s_Province), s_Territory))
                 r2 == IF has_suffix
                       THEN Correct(Warn(r1, "Remove 'County/Province/Territory' from name", <<>>),
                                    Str(county_cleaned), "correction")
                       ELSE r1
                 county == IF has_suffix THEN county_cleaned ELSE county0
                 state == row_data["State"]
                 country == row_data["Country"]
             IN  IF answer.kind = "no_adapter" \/ ~(truthy(state) /\ truthy(country))
                 THEN Returned(r2, row_data)
                 ELSE CASE answer.kind = "valid" ->
                        Returned(Note(NoteId(r2, "inat_place_id", answer.id),
                                      "inat_display_name", None),
                                 [row_data EXCEPT !["_inat_place_id"] = answer.id])
                      [] answer.kind = "invalid" ->
                        Returned(Flag(Warn(r2, "Location '{}, {}, {}' not found in iNaturalist",
                                           <<county, str(state), str(country)>>),
                                      "needs_human_review"),
                                 row_data)
                      [] OTHER ->
                        Returned(Warn(r2, "Could not verify location with iNaturalist: {}", <<>>),
                                 row_data)

(* agents/records.py *)

\* StateRecordValidator.validate and CountyRecordValidator.validate differ in the
\* field name, the word in their messages and the second value the oracle call
\* needs (the State cell, or the place id of the context)
RecordValidator(field_name, word, second, value, row_data, answer) ==
    LET result == ValidationResult(field_name, value)
        given == ~IsBlank(value)
        value_upper == IF given THEN strip(upper(str(value))) ELSE <<>>
        r1 == IF given /\ strip(str(value)) # value_upper
              THEN Correct(result, Str(value_upper), "normalization")
              ELSE result
        default_N == IF value_upper = <<>> THEN Correct(r1, Str(s_N), "normalization") ELSE r1
        taxon_id == row_data["_inat_taxon_id"]
        is_new_record == IsNewRecord(answer)
    IN  IF given /\ value_upper \notin {s_Y, s_N}
        THEN Returned(Fail(result, IF field_name = "State Record"
                                   THEN "State Record must be Y, N, or blank"
                                   ELSE "County Record must be Y, N, or blank", <<>>),
                      row_data)
        ELSE IF ~truthy(taxon_id)
        THEN Returned(IF value_upper = <<>>
                      THEN Warn(r1, "Cannot verify {} record - species not found in iNaturalist",
                                <<word>>)
                      ELSE r1, row_data)
        ELSE IF answer.kind = "no_adapter" \/ ~truthy(second)
        THEN Returned(default_N, row_data)
        ELSE CASE answer.kind = "counted" ->
               LET r2 == CASE value_upper = s_Y /\ ~is_new_record ->
                                Fail(r1, "Marked as {} record but {} observations already exist in iNaturalist",
                                     <<word, IntToStr(answer.count)>>)
                           [] value_upper = s_N /\ is_new_record ->
                                Correct(Fail(r1, "Marked as NOT a {} record but no prior observations found in iNaturalist",
                                             <<word>>),
                                        Str(s_Y), "correction")
                           [] value_upper = <<>> /\ is_new_record ->
                                Warn(Correct(r1, Str(s_Y), "correction"),
                                     "Auto-filled as {} record (no prior observations in iNaturalist)",
                                     <<word>>)
                           [] value_upper = <<>> /\ ~is_new_record ->
                                Correct(r1, Str(s_N), "normalization")
                           [] OTHER -> r1
               IN  Returned(Note(Note(r2, "inat_existing_count", IntCell(answer.count)),
                                 "inat_query_url", Str(<<>>)),
                            row_data)
             [] answer.kind = "error" ->
               Returned(IF value_upper = <<>>
                        THEN Warn(default_N, "Could not verify {} record: {}", <<word>>)
                        ELSE r1, row_data)
             [] OTHER ->
               LET r2 == Warn(r1, "Could not verify {} record with iNaturalist: {}", <<word>>)
               IN  Returned(IF value_upper = <<>>
                            THEN Correct(r2, Str(s_N), "normalization")
                            ELSE r2, row_data)

StateRecordValidator(value, row_data, answer) ==
    RecordValidator("State Record", <<"s", "t", "a", "t", "e">>, row_data["State"],
                    value, row_data, answer)

CountyRecordValidator(value, row_data, answer) ==
    RecordValidator("County Record", <<"c", "o", "u", "n", "t", "y">>,
                    row_data["_inat_place_id"], value, row_data, answer)

(* agents/metadata.py. The answer of the text-shortening oracle
   (execute_ai_task): kind "text" with the text it returned, or "raise". *)

LlmAnswer(kind, text) == [kind |-> kind, text |-> text]
LlmRaises == LlmAnswer("raise", <<>>)

\* LocationValidator.validate, had it not validated the length of the oracle's
\* output
LocationValidator_keeps_output(value, row_data, answer) ==
    LET result == ValidationResult("Specific Location", value)
    IN  IF IsBlank(value)
        THEN Returned(Fail(result, "Specific Location is required", <<>>), row_data)
        ELSE LET location == strip(str(value))
                 r1 == Fail(result, "Location exceeds 50 characters: {}",
                            <<IntToStr(Len(location))>>)
                 shortened == strip(strip(answer.text))
             IN  IF Len(location) <= 50 THEN Returned(result, row_data)
                 ELSE IF answer.kind = "raise"
                 THEN Returned(Flag(AppendError(r1, "Could not automatically shorten location: {}",
                                                <<>>),
                                    "needs_manual_shortening"), row_data)
                 ELSE Returned(Flag(Correct(r1, Str(shortened), "correction"), "ai_shortened"),
                               row_data)

LocationValidator(value, row_data, answer) ==
    LET result == ValidationResult("Specific Location", value)
    IN  IF IsBlank(value)
        THEN Returned(Fail(result, "Specific Location is required", <<>>), row_data)
        ELSE LET location == strip(str(value))
                 r1 == Fail(result, "Location exceeds 50 characters: {}",
                            <<IntToStr(Len(location))>>)
                 shortened == strip(strip(answer.text))
             IN  IF Len(location) <= 50 THEN Returned(result, row_data)
                 ELSE IF answer.kind = "raise"
                 THEN Returned(Flag(AppendError(r1, "Could not automatically shorten location: {}",
                                                <<>>),
                                    "needs_manual_shortening"), row_data)
                 ELSE IF Len(shortened) > 50
                 THEN Returned(Flag(AppendError(Warn(r1, "LLM output too long ({} chars): {}",
                                                     <<IntToStr(Len(shortened)), shortened>>),
                                                "Auto-shortening failed - needs manual review",
                                                <<>>),
                                    "needs_manual_shortening"), row_data)
                 ELSE Returned(Flag(Correct(r1, Str(shortened), "correction"), "ai_shortened"),
                               row_data)

NameValidator(value, row_data) ==
    LET result == ValidationResult("Name", value)
    IN  IF IsBlank(value) THEN Returned(result, row_data)
        ELSE LET name_code == strip(str(value))
                 r1 == IF Len(name_code) > 3
                       THEN Fail(result, "Name code must be 3 characters or less", <<>>)
                       ELSE result
             IN  Returned(Flag(r1, "needs_contributor_check"), row_data)

SignChars == {"-", "+"}

\* config.GPS_DECIMAL_PATTERN
GPS_DECIMAL_PATTERN ==
    <<Rep(SignChars, 0, 1), Rep(DigitChars, 1, 3), One({"."}), Rep(DigitChars, 1, 0 - 1),
      Rep(SpaceChars, 0, 0 - 1), One({","}), Rep(SpaceChars, 0, 0 - 1),
      Rep(SignChars, 0, 1), Rep(DigitChars, 1, 3), One({"."}), Rep(DigitChars, 1, 0 - 1)>>

\* one coordinate of config.GPS_DMS_PATTERN; "deg", "prime" and "dprime" stand
\* for the degree sign, the prime and the double prime
GpsDmsCoordinate ==
    <<Rep(DigitChars, 1, 3), One({"deg"}), Rep(SpaceChars, 0, 0 - 1),
      Rep(DigitChars, 1, 2), One({"'", "prime"}), Rep(SpaceChars, 0, 0 - 1),
      Rep(DigitChars, 1, 2), Opt(<<One({"."}), Rep(DigitChars, 1, 0 - 1)>>),
      Rep({"\"", "dprime"}, 0, 1), Rep(SpaceChars, 0, 0 - 1), One({"N", "S", "E", "W"})>>

GPS_DMS_PATTERN ==
    GpsDmsCoordinate \o <<Rep(SpaceChars, 0, 0 - 1), Rep({","}, 0, 1), Rep(SpaceChars, 0, 0 - 1)>>
    \o GpsDmsCoordinate

CommentValidator(value, row_data, answer) ==
    LET result == ValidationResult("Comments", value)
    IN  IF IsBlank(value) THEN Returned(result, row_data)
        ELSE LET comments == strip(str(value))
                 r1 == IF \/ re_search(GPS_DECIMAL_PATTERN, comments)
                          \/ re_search(GPS_DMS_PATTERN, comments)
                       THEN Flag(result, "has_gps_coords")
                       ELSE result
                 r2 == Warn(r1, "Comments exceed 120 characters: {}", <<IntToStr(Len(comments))>>)
             IN  IF Len(comments) <= 120 THEN Returned(r1, row_data)
                 ELSE IF answer.kind = "raise"
                 THEN Returned(AppendError(r2, "Could not automatically shorten comment: {}", <<>>),
                               row_data)
                 ELSE Returned(Flag(Correct(r2, Str(strip(answer.text)), "correction"),
                                    "ai_shortened"), row_data)

(* agents/temporal.py *)

\* datetime.now(): the day of the run
now == Date(2025, 6, 15)

\* config.DATE_FORMAT without its anchors
DATE_FORMAT == <<Rep(DigitChars, 1, 2), One({"-"}), Rep(UpperLetters, 3, 3), One({"-"}),
                 Rep(DigitChars, 2, 2)>>

CellDate(v) == Date(v.n \div 10000, (v.n \div 100) % 100, v.n % 100)

\* the "already in correct format" block: day, month and year of a string that
\* matches DATE_FORMAT, the year widened as the validators widen it; NoDate
\* where int or strptime raise
CanonicalDate(date_str) ==
    Bind(split(upper(date_str), "-"), LAMBDA date_parts :
        IF Len(date_parts) # 3 THEN NoDate
        ELSE Bind(<<ParseInt(date_parts[1]), ParseInt(date_parts[3]),
                    IndexIn(MonthNames, lower(date_parts[2]))>>,
                  LAMBDA p :
                     IF p[1].ok /\ p[2].ok /\ p[3] > 0 /\ p[1].n \in 1..31
                     THEN MakeDate(IF p[2].n < 50 THEN 2000 + p[2].n ELSE 1900 + p[2].n,
                                   p[3], p[1].n)
                     ELSE NoDate))

\* one directive of a strptime format applied to the text between separators;
\* a negative number where the text does not match it
DirectiveValue(directive, text) ==
    Bind(IF AllDigits(text) /\ text # <<>> THEN DigitsValue(text) ELSE 0 - 1, LAMBDA n :
        CASE directive = "Y" -> IF Len(text) = 4 /\ n >= 1 THEN n ELSE 0 - 1
          [] directive = "y" ->
                IF Len(text) = 2 /\ n >= 0 THEN (IF n <= 68 THEN 2000 ELSE 1900) + n
                ELSE 0 - 1
          [] directive = "m" -> IF Len(text) \in {1, 2} /\ n \in 1..12 THEN n ELSE 0 - 1
          [] OTHER ->
                IF Len(text) \in {1, 2} /\ n \in 1..31 THEN n
                ELSE IF Len(text) = 2 /\ text[1] = " " /\ text[2] \in (DigitChars \ {"0"})
                THEN DigitOf[text[2]] ELSE 0 - 1)

\* datetime.strptime(date_str, fmt) for a format of three directives joined by
\* sep: directives names them in the order year, month, day, places gives the
\* position of each in the format
strptime3(date_str, directives, places, sep) ==
    Bind(split(date_str, sep), LAMBDA parts :
        IF Len(parts) # 3 THEN NoDate
        ELSE Bind([k \in 1..3 |-> DirectiveValue(directives[k], parts[places[k]])],
                  LAMBDA v : IF v[1] < 0 \/ v[2] < 0 \/ v[3] < 0 THEN NoDate
                             ELSE MakeDate(v[1], v[2], v[3])))

\* the formats tried for a string that does not match DATE_FORMAT, in order:
\* %Y-%m-%d, %m/%d/%Y, %m/%d/%y, %d/%m/%Y, %d/%m/%y
OtherFormats ==
    << [directives |-> <<"Y", "m", "d">>, places |-> <<1, 2, 3>>, sep |-> "-"],
       [directives |-> <<"Y", "m", "d">>, places |-> <<3, 1, 2>>, sep |-> "/"],
       [directives |-> <<"y", "m", "d">>, places |-> <<3, 1, 2>>, sep |-> "/"],
       [directives |-> <<"Y", "m", "d">>, places |-> <<3, 2, 1>>, sep |-> "/"],
       [directives |-> <<"y", "m", "d">>, places |-> <<3, 2, 1>>, sep |-> "/"] >>

RECURSIVE TryFormats(_, _)
TryFormats(date_str, k) ==
    IF k > Len(OtherFormats) THEN NoDate
    ELSE Bind(strptime3(date_str, OtherFormats[k].directives, OtherFormats[k].places,
                        OtherFormats[k].sep),
              LAMBDA date_obj : IF date_obj.none THEN TryFormats(date_str, k + 1)
                                ELSE date_obj)

\* date_obj.strftime("%d-%b-%y"), had its result not been put in upper case
strftime_d_b_y_as_locale(date_obj) ==
    TwoDigits(date_obj.d) \o <<"-">> \o capitalize(MonthNames[date_obj.m]) \o <<"-">>
    \o TwoDigits(date_obj.y % 100)

\* date_obj.strftime("%d-%b-%y").upper()
strftime_d_b_y(date_obj) ==
    TwoDigits(date_obj.d) \o <<"-">> \o upper(MonthNames[date_obj.m]) \o <<"-">>
    \o TwoDigits(date_obj.y % 100)

\* What the first part of FirstDateValidator.validate and LastDateValidator.validate
\* makes of a non-blank value: kind "date" with date_obj, "none" (no date_obj,
\* no error), or the error it returns with
ResolveDate(value) ==
    IF isdatetime(value) THEN [kind |-> "date", date_obj |-> CellDate(value)]
    ELSE IF ~isstr(value) THEN [kind |-> "none", date_obj |-> NoDate]
    ELSE Bind(strip(str(value)), LAMBDA date_str :
            IF re_match_to_end(DATE_FORMAT, upper(date_str))
            THEN Bind(CanonicalDate(date_str), LAMBDA date_obj :
                    IF date_obj.none THEN [kind |-> "Invalid date: {}", date_obj |-> NoDate]
                    ELSE [kind |-> "date", date_obj |-> date_obj])
            ELSE Bind(TryFormats(date_str, 1), LAMBDA date_obj :
                    IF date_obj.none
                    THEN [kind |-> "Could not parse date: {}", date_obj |-> NoDate]
                    ELSE [kind |-> "date", date_obj |-> date_obj]))

\* the part both date validators share after date_obj is known: the correction
\* to the standard format
Standardized(result, value, formatted_date) ==
    IF str(value) # formatted_date
    THEN Correct(result, Str(formatted_date), "normalization")
    ELSE result

\* ... and the check against the day of the run
NotInFuture(result, date_obj, formatted_date) ==
    IF DateOrd(date_obj) > DateOrd(now)
    THEN Fail(result, "Date cannot be in the future: {}", <<formatted_date>>)
    ELSE result

FirstDateValidator(value, row_data) ==
    IF IsBlank(value)
    THEN Returned(Fail(ValidationResult("First Date", value), "First Date is required", <<>>),
                  row_data)
    ELSE Bind(ResolveDate(value), LAMBDA resolved :
        IF resolved.kind = "none" THEN Returned(ValidationResult("First Date", value), row_data)
        ELSE IF resolved.kind # "date"
        THEN Returned(Fail(ValidationResult("First Date", value), resolved.kind,
                           <<strip(str(value))>>), row_data)
        ELSE Bind(strftime_d_b_y(resolved.date_obj), LAMBDA formatted_date :
            Bind(Standardized(ValidationResult("First Date", value), value, formatted_date),
                 LAMBDA r1 :
                    Bind(IF now.y - resolved.date_obj.y > 3
                         THEN Warn(r1, "Date is more than 3 years old: {}",
                                   <<IntToStr(resolved.date_obj.y)>>)
                         ELSE r1,
                         LAMBDA r2 :
                            Returned(Flag(NotInFuture(r2, resolved.date_obj, formatted_date),
                                          "datetime"), row_data)))))

\* the datetime LastDateValidator makes of the row's First Date, NoDate if none
FirstDateOf(row_data) ==
    Bind(row_data["First Date"], LAMBDA first_date :
        IF ~truthy(first_date) THEN NoDate
        ELSE IF isdatetime(first_date) THEN CellDate(first_date)
        ELSE IF isstr(first_date) /\ re_match_to_end(DATE_FORMAT, upper(first_date.s))
        THEN CanonicalDate(first_date.s)
        ELSE NoDate)

LastDateValidator(value, row_data) ==
    IF IsBlank(value) THEN Returned(ValidationResult("Last Date", value), row_data)
    ELSE Bind(ResolveDate(value), LAMBDA resolved :
        IF resolved.kind = "none" THEN Returned(ValidationResult("Last Date", value), row_data)
        ELSE IF resolved.kind # "date"
        THEN Returned(Fail(ValidationResult("Last Date", value), resolved.kind,
                           <<strip(str(value))>>), row_data)
        ELSE Bind(strftime_d_b_y(resolved.date_obj), LAMBDA formatted_date :
            Bind(Standardized(ValidationResult("Last Date", value), value, formatted_date),
                 LAMBDA r1 :
                    Bind(FirstDateOf(row_data), LAMBDA first_dt :
                        Bind(IF ~first_dt.none /\ DateOrd(resolved.date_obj) < DateOrd(first_dt)
                             THEN Warn(r1, "Last Date is before First Date", <<>>)
                             ELSE r1,
                             LAMBDA r2 :
                                Returned(Flag(NotInFuture(r2, resolved.date_obj, formatted_date),
                                              "datetime"), row_data))))))

YearValidator(value, row_data) ==
    LET result == ValidationResult("Year", value)
        first_date == row_data["First Date"]
        year == int(value)
        r1 == IF year.n < 1000 \/ year.n > 9999
              THEN Fail(result, "Year must be 4 digits", <<>>)
              ELSE result
        r2 == IF now.y - year.n > 3
              THEN Warn(r1, "Year is more than 3 years old: {}", <<IntToStr(year.n)>>)
              ELSE r1
        r3 == IF year.n > now.y
              THEN Fail(r2, "Year cannot be in the future: {}", <<IntToStr(year.n)>>)
              ELSE r2
    IN  IF IsBlank(value)
        THEN IF isdatetime(first_date)
             THEN Returned(Warn(Correct(result, IntCell(CellDate(first_date).y), "correction"),
                                "Year auto-filled from First Date: {}",
                                <<IntToStr(CellDate(first_date).y)>>), row_data)
             ELSE Returned(Fail(result, "Year is required", <<>>), row_data)
        ELSE IF ~year.ok
        THEN Returned(Fail(result, "Year must be numeric: {}", <<str(value)>>), row_data)
        ELSE Returned(r3, row_data)

-----------------------------------------------------------------------------
(* LepSocValidationCrew.validate_row (validator.py). oracle holds the answers
   the external services give during the row, one per validator that asks. *)

Oracle(family, species, subspecies, county, state_record, county_record, location, comments) ==
    [family |-> family, species |-> species, subspecies |-> subspecies, county |-> county,
     state_record |-> state_record, county_record |-> county_record,
     location |-> location, comments |-> comments]

\* self.validators[i].validate(value, row_dict), the validators in the order
\* _create_validators lists them
Validate(i, value, row_dict, oracle) ==
    CASE i = 1 -> ZoneValidator(value, row_dict)
      [] i = 2 -> CountryValidator(value, row_dict)
      [] i = 3 -> StateValidator(value, row_dict)
      [] i = 4 -> FamilyValidator(value, row_dict, oracle.family)
      [] i = 5 -> GenusValidator(value, row_dict)
      [] i = 6 -> SpeciesValidator(value, row_dict, oracle.species)
      [] i = 7 -> SubspeciesValidator(value, row_dict, oracle.subspecies)
      [] i = 8 -> CountyValidator(value, row_dict, oracle.county)
      [] i = 9 -> StateRecordValidator(value, row_dict, oracle.state_record)
      [] i = 10 -> CountyRecordValidator(value, row_dict, oracle.county_record)
      [] i = 11 -> LocationValidator(value, row_dict, oracle.location)
      [] i = 12 -> FirstDateValidator(value, row_dict)
      [] i = 13 -> LastDateValidator(value, row_dict)
      [] i = 14 -> NameValidator(value, row_dict)
      [] i = 15 -> CommentValidator(value, row_dict, oracle.comments)
      [] OTHER -> YearValidator(value, row_dict)

\* f"{col_name}: {e}" for the entries of a field result's list
Prefixed(col_name, messages) ==
    [k \in 1..Len(messages) |->
        [Message(col_name, messages[k].text, 0, {}) EXCEPT !.args = messages[k].args]]

\* dict[key] = value
Put(dict, key, value) ==
    [k \in (DOMAIN dict) \cup {key} |-> IF k = key THEN value ELSE dict[k]]

\* the loop body after validator.validate returned result ("Store field result"
\* to "Check if review needed")
ProcessResult(validation_results, col_name, result) ==
    [validation_results EXCEPT
        !.field_results = Put(@, col_name, result),
        !.is_valid = IF ~result.is_valid THEN FALSE ELSE @,
        !.errors = IF ~result.is_valid THEN @ \o Prefixed(col_name, result.errors) ELSE @,
        !.warnings = @ \o Prefixed(col_name, result.warnings),
        !.corrections = IF result.correction # None THEN Put(@, col_name, result.correction) ELSE @,
        !.metadata.fields = IF result.metadata.keys # {} THEN Put(@, col_name, result.metadata) ELSE @,
        !.needs_review = IF \/ "needs_inat_check" \in result.metadata.truthy
                            \/ "needs_inat_verification" \in result.metadata.truthy
                         THEN TRUE ELSE @]

\* the answer the external service of the i-th validator has for the row
\* (NoOracle for a validator that has no external service)
NoOracle == [kind |-> "none"]
AnswerFor(i, oracle) ==
    CASE i = 4 -> oracle.family
      [] i = 6 -> oracle.species
      [] i = 7 -> oracle.subspecies
      [] i = 8 -> oracle.county
      [] i = 9 -> oracle.state_record
      [] i = 10 -> oracle.county_record
      [] i = 11 -> oracle.location
      [] i = 15 -> oracle.comments
      [] OTHER -> NoOracle

\* an entry of the invocation log: the validator called, the identifiers the
\* shared row dict held when it was called, and the answer its external
\* service has for the row
Call(col_name, row_dict, answer) ==
    [validator |-> col_name, taxon_id |-> row_dict["_inat_taxon_id"],
     place_id |-> row_dict["_inat_place_id"], answer |-> answer]

\* the name Python gives the type of a cell value
TypeName(v) ==
    CASE v.t = "nan" -> <<"f", "l", "o", "a", "t">>
      [] v.t = "int" -> <<"i", "n", "t">>
      [] v.t = "none" -> <<"N", "o", "n", "e", "T", "y", "p", "e">>
      [] v.t = "str" -> <<"s", "t", "r">>
      [] OTHER -> <<"T", "i", "m", "e", "s", "t", "a", "m", "p">>

\* the except clause of validate_row
CatchAll(validation_results, row_dict) ==
    [validation_results EXCEPT
        !.is_valid = FALSE,
        !.errors = Append(@, [Message("Validation error",
                                      "'{}' object has no attribute 'upper'", 0, {})
                              EXCEPT !.args = <<TypeName(row_dict["Country"])>>])]

\* one iteration of the for loop of validate_row: run holds the results
\* container, the shared row dict, the invocation log and whether the try
\* block was left through its except clause
Iteration(i, row_data, run, oracle) ==
    Bind(Validate(i, row_data[COLUMN_NAMES[i]], run.row_dict, oracle),
         LAMBDA out :
            IF out.raised
            THEN [results |-> CatchAll(run.results, run.row_dict),
                  row_dict |-> run.row_dict,
                  calls |-> Append(run.calls, Call(COLUMN_NAMES[i], run.row_dict,
                                                    AnswerFor(i, oracle))),
                  raised |-> TRUE]
            ELSE [results |-> ProcessResult(run.results, COLUMN_NAMES[i], out.result),
                  row_dict |-> out.row_data,
                  calls |-> Append(run.calls, Call(COLUMN_NAMES[i], run.row_dict,
                                                    AnswerFor(i, oracle))),
                  raised |-> FALSE])

\* the try block of validate_row from its i-th iteration on, and the except
\* clause that ends it when a validator raises
RECURSIVE RunValidators(_, _, _, _)
RunValidators(i, row_data, run, oracle) ==
    IF i > Len(COLUMN_NAMES) \/ run.raised THEN run
    ELSE Bind(Iteration(i, row_data, run, oracle),
              LAMBDA next : RunValidators(i + 1, row_data, next, oracle))

\* validate_row(row_index, row_data): the row result (results), and the log of
\* the validators it invoked (calls)
validate_row(row_index, row_data, oracle) ==
    RunValidators(1, row_data,
                  [results |-> NewRowResult(row_index), row_dict |-> to_dict(row_data),
                   calls |-> <<>>, raised |-> FALSE],
                  oracle)

-----------------------------------------------------------------------------
(* Datasets handed to the QA agent *)

QARow(family, species, state_record, county, county_record, first_date) ==
    [mock_row_data EXCEPT !["Family"] = family, !["Species"] = species,
                          !["State Record"] = state_record, !["County"] = county,
                          !["County Record"] = county_record,
                          !["First Date"] = first_date]

SampleDates == {Str(s_01_JAN_20), Str(s_01_JAN_22), Str(s_31_FEB_20)}

\* rows of two species that differ in State Record and First Date
StateFocusRows ==
    {QARow(Str(s_Nymphalidae), Str(s_plexippus), Str(s_Y), Str(s_Door), Str(s_N), dt) :
        dt \in SampleDates}
    \cup {QARow(Str(s_Nymphalidae), Str(s_gilippus), Str(s_Y), Str(s_Door), Str(s_N), dt) :
        dt \in {Str(s_01_JAN_20), Str(s_01_JAN_22)}}
    \cup {QARow(Str(s_Nymphalidae), Str(s_plexippus), Str(s_N), Str(s_Door), Str(s_N),
                Str(s_01_JAN_20))}

\* rows of one species that differ in County and First Date
CountyFocusRows ==
    {QARow(Str(s_Nymphalidae), Str(s_plexippus), Str(s_N), Str(s_Door), Str(s_Y), dt) :
        dt \in {Str(s_01_JAN_20), Str(s_01_JAN_22)}}
    \cup {QARow(Str(s_Nymphalidae), Str(s_plexippus), Str(s_N), Str(s_Dane), Str(s_Y), dt) :
        dt \in {Str(s_01_JAN_20), Str(s_31_FEB_20)}}

\* a row that is a state record and a county record at once
BothRecordRows ==
    {QARow(Str(s_Nymphalidae), Str(s_plexippus), Str(s_Y), Str(s_Door), Str(s_Y),
           Str(s_01_JAN_22))}

\* a row without Family, a row spelt with blanks and lower case, a row marked
\* YES without a First Date
SpecialRows ==
    {QARow(Str(<<>>), Str(s_plexippus), Str(s_Y), Str(s_Door), Str(s_Y), Str(s_01_JAN_20)),
     QARow(Str(s_Nymphalidae), Str(s_plexippus_sp), Str(s_y_sp), Str(s_Door), Str(s_N),
           Str(s_1_jan_20)),
     QARow(Str(s_Nymphalidae), Str(s_plexippus), Str(s_YES), Str(s_Door), Str(s_N), NaN)}

QARows == StateFocusRows \cup CountyFocusRows \cup BothRecordRows \cup SpecialRows

SeqsUpTo(S, n) == UNION {[1..k -> S] : k \in 1..n}

-----------------------------------------------------------------------------
(* SpecQA: validate_record_uniqueness called, once or again, on a dataset and
   row results whose row_index is the row's position *)

InitQA ==
    /\ df \in SeqsUpTo(QARows, MaxRows)
    /\ all_results = [i \in 1..Len(df) |-> NewRowResult(i - 1)]
    /\ pc = "qa"
    /\ index = 0
    /\ valid_indices = <<>>
    /\ df_filtered = <<>>
    /\ validated_df = <<>>
    /\ runs = 0
    /\ calls = <<>>
    /\ workbook = NoWorkbook

RunUniqueness ==
    /\ pc = "qa"
    /\ runs < MaxRuns
    /\ all_results' = validate_record_uniqueness(df, all_results)
    /\ runs' = runs + 1
    /\ UNCHANGED <<df, pc, index, valid_indices, df_filtered, validated_df, calls, workbook>>

NextQA == RunUniqueness

SpecQA == InitQA /\ [][NextQA]_vars

-----------------------------------------------------------------------------
(* SpecHall: validate_hallucinations called, once or again, on a dataset whose
   row results hold corrections of Specific Location and Comments *)

\* a field result as LocationValidator and CommentValidator leave it when the
\* oracle's text is taken as the correction (ai_shortened set), or a correction
\* of another origin
ShortenedFieldResult(field, value, correction, ai_shortened) ==
    [ValidationResult(field, value) EXCEPT
        !.correction = correction,
        !.correction_type = "correction",
        !.metadata = IF ai_shortened THEN SetFlag(@, "ai_shortened") ELSE @]

\* An input of the pass: the corrections (None for no correction) the row result
\* holds for the two fields, whether each is marked ai_shortened, whether the
\* result has a row_index and whether it holds field results at all.
HallItem(loc, loc_ai, com, com_ai, has_index, has_fields) ==
    [loc |-> loc, loc_ai |-> loc_ai, com |-> com, com_ai |-> com_ai,
     has_index |-> has_index, has_fields |-> has_fields]

HallItems ==
    {HallItem(None, FALSE, Str(c), ai, TRUE, TRUE) :
        c \in {s_HWY61, s_Hwy_61, s_Hwy_61_Zork, s_nr_hwy_61}, ai \in BOOLEAN}
    \cup {HallItem(Str(l), ai, None, FALSE, TRUE, TRUE) :
        l \in {s_Big_Lk_Rd, s_Big_Lk_Rd_CR5}, ai \in BOOLEAN}
    \cup {HallItem(Str(s_Big_Lk_Rd_CR5), TRUE, Str(s_Hwy_61_Zork), TRUE, TRUE, TRUE),
          HallItem(None, FALSE, None, FALSE, TRUE, TRUE),
          HallItem(None, FALSE, Str(s_Hwy_61_Zork), TRUE, FALSE, TRUE),
          HallItem(None, FALSE, Str(s_Hwy_61_Zork), TRUE, TRUE, FALSE)}

HallRow == [mock_row_data EXCEPT !["Specific Location"] = Str(s_Big_Lake_Road),
                                 !["Comments"] = Str(s_Highway_61)]

HallResult(item, row_index) ==
    LET corrected == {f \in {"Specific Location", "Comments"} :
                        (IF f = "Comments" THEN item.com ELSE item.loc) # None}
        corr(f) == IF f = "Comments" THEN item.com ELSE item.loc
        ai(f) == IF f = "Comments" THEN item.com_ai ELSE item.loc_ai
    IN  [NewRowResult(IF item.has_index THEN row_index ELSE NoIndex) EXCEPT
            !.corrections = [f \in corrected |-> corr(f)],
            !.field_results =
                [f \in (IF item.has_fields THEN corrected ELSE {}) |->
                    ShortenedFieldResult(f, HallRow[f], corr(f), ai(f))]]

InitHall ==
    /\ \E items \in SeqsUpTo(HallItems, MaxHallRows) :
          /\ df = [i \in 1..Len(items) |-> HallRow]
          /\ all_results = [i \in 1..Len(items) |-> HallResult(items[i], i - 1)]
    /\ pc = "qa"
    /\ index = 0
    /\ valid_indices = <<>>
    /\ df_filtered = <<>>
    /\ validated_df = <<>>
    /\ runs = 0
    /\ calls = <<>>
    /\ workbook = NoWorkbook

RunHallucinations ==
    /\ pc = "qa"
    /\ runs < MaxRuns
    /\ all_results' = validate_hallucinations(df, all_results)
    /\ runs' = runs + 1
    /\ UNCHANGED <<df, pc, index, valid_indices, df_filtered, validated_df, calls, workbook>>

NextHall == RunHallucinations

SpecHall == InitHall /\ [][NextHall]_vars

-----------------------------------------------------------------------------
(* SpecRow: validate_row called on one row after the other, the external
   services answering each row in one of the ways of RowOracles *)

RowWith(changes) == [c \in Columns |-> IF c \in DOMAIN changes THEN changes[c] ELSE mock_row_data[c]]

RowSamples ==
    {mock_row_data,
     \* an empty Country cell beside a State
     RowWith("Country" :> NaN),
     \* no Zone, Country or State
     RowWith("Zone" :> NaN @@ "Country" :> NaN @@ "State" :> NaN),
     \* values that differ from their normal form by case and blanks
     RowWith("Country" :> Str(s_usa_sp) @@ "State" :> Str(s_wi) @@ "Genus" :> Str(s_DANAUS)
             @@ "Species" :> Str(s_Plexippus) @@ "Zone" :> IntCell(8)),
     \* record flags given, a county with its suffix
     RowWith("County" :> Str(s_Dane_County) @@ "State Record" :> Str(s_Y)
             @@ "County Record" :> Str(s_N)),
     \* texts over the length limits
     RowWith("Specific Location" :> Str(s_long_location) @@ "Comments" :> Str(s_long_comment)),
     \* a date cell, no Year
     RowWith("First Date" :> DateTime(2024, 7, 15) @@ "Year" :> NaN),
     \* a date in another notation, no Year, a Last Date before it
     RowWith("First Date" :> Str(s_2024_07_15) @@ "Year" :> Str(<<>>)
             @@ "Last Date" :> Str(s_01_JAN_22)),
     \* no Genus
     RowWith("Genus" :> NaN @@ "Sub-species" :> Str(s_gilippus)),
     \* record flags the other way round, one in lower case
     RowWith("State Record" :> Str(s_N) @@ "County Record" :> Str(s_y_sp))}

TaxonId == IntCell(48662)
SubspeciesId == IntCell(235550)
FamilyId == IntCell(47922)
PlaceId == IntCell(1927)
\* the service knows observations of the species in the place
PriorObservations == CountAnswer("counted", 5)

\* every lookup succeeds, no prior observations, the shortened texts are faithful
AllFound ==
    Oracle(Found(FamilyId), Found(TaxonId), Found(SubspeciesId), Found(PlaceId),
           CountAnswer("counted", 0), CountAnswer("counted", 0),
           LlmAnswer("text", s_short_location), LlmAnswer("text", s_short_comment))

\* the adapter in mock mode, the text oracle unreachable
Unavailable ==
    Oracle(Unreachable, Unreachable, Unreachable, Unreachable,
           CountAnswer("error", 0), CountAnswer("error", 0), LlmRaises, LlmRaises)

RowOracles ==
    {AllFound,
     Unavailable,
     [AllFound EXCEPT !.state_record = PriorObservations,
                      !.county_record = PriorObservations],
     [AllFound EXCEPT !.species = NotFound],
     [AllFound EXCEPT !.county = NotFound, !.family = NotFound],
     [AllFound EXCEPT !.species = FoundMismatch(TaxonId), !.subspecies = NotFound],
     [AllFound EXCEPT !.family = LookupRaises, !.species = LookupRaises,
                      !.subspecies = LookupRaises, !.county = LookupRaises],
     [AllFound EXCEPT !.state_record = CountAnswer("raise", 0),
                      !.county_record = CountAnswer("error", 0)],
     [AllFound EXCEPT !.location = LlmAnswer("text", s_long_location),
                      !.comments = LlmAnswer("text", s_invented_comment)],
     [AllFound EXCEPT !.location = LlmAnswer("text", s_invented_location),
                      !.comments = LlmRaises]}

InitRow ==
    /\ df \in SeqsUpTo(RowSamples, MaxRowCalls)
    /\ all_results = <<>>
    /\ pc = "row"
    /\ index = 0
    /\ valid_indices = <<>>
    /\ df_filtered = <<>>
    /\ validated_df = <<>>
    /\ runs = 0
    /\ calls = <<>>
    /\ workbook = NoWorkbook

\* result = self.validate_row(index, row) for the next row of df
ValidateRow ==
    /\ pc = "row"
    /\ index < Len(df)
    /\ \E oracle \in RowOracles :
          \E out \in {validate_row(index, df[index + 1], oracle)} :
              /\ all_results' = Append(all_results, out.results)
              /\ calls' = out.calls
    /\ index' = index + 1
    /\ UNCHANGED <<df, pc, valid_indices, df_filtered, validated_df, runs, workbook>>

NextRow == ValidateRow

SpecRow == InitRow /\ [][NextRow]_vars

-----------------------------------------------------------------------------
(* Spec: LepSocValidationCrew.validate_file (validator.py). df is the dataset
   as read, without its header row and with the 16 column names; the loop over
   its rows takes one step per row, the rest of the function one step. *)

\* all(pd.isna(row.get(field)) or str(row.get(field, '')).strip() == ''
\*     for field in key_fields)
IsBlankRow(row) ==
    \A field \in {"Family", "Genus", "Species"} :
        isna(row[field]) \/ strip(str(row[field])) = <<>>

\* df.loc[valid_indices].reset_index(drop=True)
FilterRows(data, indices) == [k \in 1..Len(indices) |-> data[indices[k] + 1]]

\* validated_df.loc[i, field] = correction for the i-th result and each of its
\* corrections
Corrected(data, results) ==
    [i \in 1..Len(data) |->
        IF i <= Len(results)
        THEN [c \in Columns |-> IF c \in DOMAIN results[i].corrections
                                THEN results[i].corrections[c] ELSE data[i][c]]
        ELSE data[i]]

\* _apply_corrections, had it assigned to the dataset it was given
\* (validated_df = df)
_apply_corrections_in_place(data, results) ==
    [df |-> Corrected(data, results), validated_df |-> Corrected(data, results)]

\* _apply_corrections(df, results): the dataset it returns (validated_df) and
\* what its argument holds afterwards (df); the assignments go to a copy
_apply_corrections(data, results) ==
    [df |-> data, validated_df |-> Corrected(data, results)]

\* the fill _save_excel_with_colors chooses for the cell of column field in the
\* row of result, taking a cell with warnings for yellow first
CellColor_warning_first(result, field) ==
    IF field \notin DOMAIN result.field_results THEN "none"
    ELSE LET field_result == result.field_results[field]
         IN  IF ~field_result.is_valid /\ field \notin DOMAIN result.corrections
             THEN "red"
             ELSE IF field_result.is_valid /\ field_result.warnings # <<>>
             THEN "yellow"
             ELSE IF /\ field \in DOMAIN result.corrections
                     /\ field_result.correction_type = "unset"
             THEN "AttributeError"
             ELSE IF /\ field \in DOMAIN result.corrections
                     /\ field_result.correction_type = "correction"
             THEN "orange"
             ELSE "none"

\* the fill _save_excel_with_colors chooses for the cell of column field in the
\* row of result: "red", "orange", "yellow", "none" for no fill, or
\* "AttributeError" where reading correction_type raises
CellColor(result, field) ==
    IF field \notin DOMAIN result.field_results THEN "none"
    ELSE LET field_result == result.field_results[field]
         IN  IF ~field_result.is_valid /\ field \notin DOMAIN result.corrections
             THEN "red"
             ELSE IF /\ field \in DOMAIN result.corrections
                     /\ field_result.correction_type = "unset"
             THEN "AttributeError"
             ELSE IF /\ field \in DOMAIN result.corrections
                     /\ field_result.correction_type = "correction"
             THEN "orange"
             ELSE IF field_result.is_valid /\ field_result.warnings # <<>>
             THEN "yellow"
             ELSE "none"

\* _save_excel_with_colors(original_df, corrected_df, results, output_path):
\* the workbook saved, the corrected columns on the left with their fills and
\* the original columns on the right; nothing is saved if a cell raises
_save_excel_with_colors(original_df, corrected_df, results) ==
    LET fills == [i \in 1..Len(corrected_df) |->
                    [c \in Columns |-> CellColor(results[i], c)]]
    IN  IF \E i \in 1..Len(fills) : \E c \in Columns : fills[i][c] = "AttributeError"
        THEN [NoWorkbook EXCEPT !.kind = "AttributeError"]
        ELSE [kind |-> "xlsx", left |-> corrected_df, right |-> original_df, fills |-> fills]

\* validated_df.to_csv(output_path, index=False)
to_csv(corrected_df) == [NoWorkbook EXCEPT !.kind = "csv", !.left = corrected_df]

\* the file validate_file writes for an output_path that ends with .xlsx
\* ("xlsx"), another path ("csv") or no path ("none")
Save(output_path, original_df, corrected_df, results) ==
    CASE output_path = "xlsx" -> _save_excel_with_colors(original_df, corrected_df, results)
      [] output_path = "csv" -> to_csv(corrected_df)
      [] OTHER -> NoWorkbook

FileRows ==
    {mock_row_data,
     \* the same species written in capitals
     RowWith("Genus" :> Str(s_DANAUS) @@ "Species" :> Str(s_Plexippus)),
     \* a state record and county record of an earlier date
     RowWith("State Record" :> Str(s_Y) @@ "County Record" :> Str(s_Y)
             @@ "First Date" :> Str(s_01_JAN_22)),
     \* a blank row
     RowWith("Family" :> NaN @@ "Genus" :> NaN @@ "Species" :> Str(<<>>)),
     \* texts over the length limits
     RowWith("Specific Location" :> Str(s_long_location) @@ "Comments" :> Str(s_long_comment)),
     \* an empty Country cell beside a State
     RowWith("Country" :> NaN),
     \* a state record in lower case, a county with its suffix, an old date
     RowWith("State Record" :> Str(s_y_sp) @@ "County" :> Str(s_Dane_County)
             @@ "First Date" :> Str(s_01_JAN_20))}

\* the shortened texts hold words of the oracle's own
Inventing ==
    [AllFound EXCEPT !.location = LlmAnswer("text", s_invented_location),
                     !.comments = LlmAnswer("text", s_invented_comment)]

FileOracles ==
    {AllFound, Inventing,
     [AllFound EXCEPT !.state_record = PriorObservations,
                      !.county_record = PriorObservations]}

Init ==
    /\ df \in SeqsUpTo(FileRows, MaxFileRows)
    /\ all_results = <<>>
    /\ pc = "rows"
    /\ index = 0
    /\ valid_indices = <<>>
    /\ df_filtered = <<>>
    /\ validated_df = <<>>
    /\ runs = 0
    /\ calls = <<>>
    /\ workbook = NoWorkbook

\* an iteration of "for index, row in df.iterrows()" that ends at continue
SkipBlankRow ==
    /\ pc = "rows"
    /\ index < Len(df)
    /\ IsBlankRow(df[index + 1])
    /\ index' = index + 1
    /\ UNCHANGED <<df, all_results, pc, valid_indices, df_filtered, validated_df, runs, calls,
                   workbook>>

\* an iteration that validates the row
ValidateFileRow ==
    /\ pc = "rows"
    /\ index < Len(df)
    /\ ~IsBlankRow(df[index + 1])
    /\ \E oracle \in FileOracles :
          \E out \in {validate_row(index, df[index + 1], oracle)} :
              /\ all_results' = Append(all_results, out.results)
              /\ calls' = out.calls
    /\ valid_indices' = Append(valid_indices, index)
    /\ index' = index + 1
    /\ UNCHANGED <<df, pc, df_filtered, validated_df, runs, workbook>>

\* the function after its loop: the rows kept, the QA pass, the corrections,
\* the file saved
FinishFile ==
    /\ pc = "rows"
    /\ index = Len(df)
    /\ \E kept \in {FilterRows(df, valid_indices)} :
          \E checked \in {validate_record_uniqueness(kept, all_results)} :
              \E applied \in {_apply_corrections(kept, checked)} :
                  /\ df_filtered' = applied.df
                  /\ all_results' = checked
                  /\ validated_df' = applied.validated_df
                  /\ \E output_path \in {"xlsx", "csv", "none"} :
                        workbook' = Save(output_path, applied.df, applied.validated_df, checked)
    /\ pc' = "done"
    /\ runs' = runs + 1
    /\ UNCHANGED <<df, index, valid_indices, calls>>

Next == SkipBlankRow \/ ValidateFileRow \/ FinishFile

Spec == Init /\ [][Next]_vars

-----------------------------------------------------------------------------
(* Properties of the record-uniqueness pass, stated on the dataset df and the
   row results all_results without the pass's own grouping and sorting *)

Rows == 1..Len(df)

Field(i, column) == strip(str(df[i][column]))

\* rows i and j carry the same, complete species (Family, Genus, Species, Sub-species)
SameSpecies(i, j) ==
    /\ \A c \in {"Family", "Genus", "Species"} : Field(i, c) # <<>> /\ Field(j, c) # <<>>
    /\ \A c \in {"Family", "Genus", "Species", "Sub-species"} : Field(i, c) = Field(j, c)

StateAffirmative(i) == IsAffirmative(df[i]["State Record"])
CountyAffirmative(i) == IsAffirmative(df[i]["County Record"])

\* the affirmative rows row i competes with for the state (county) record
StateRivals(i) == {j \in Rows : SameSpecies(i, j) /\ StateAffirmative(j)}
CountyRivals(i) ==
    {j \in Rows : SameSpecies(i, j) /\ CountyAffirmative(j)
                  /\ Field(i, "County") = Field(j, "County")}

IsDuplicateState(e) ==
    e.prefix = "State Record" /\ e.text = "Duplicate state record for species"
IsDuplicateCounty(e) ==
    e.prefix = "County Record" /\ e.text = "Duplicate county record for species"

ErrorsOf(i) == all_results[i].errors
DuplicateStateErrors(i) == {k \in 1..Len(ErrorsOf(i)) : IsDuplicateState(ErrorsOf(i)[k])}
DuplicateCountyErrors(i) == {k \in 1..Len(ErrorsOf(i)) : IsDuplicateCounty(ErrorsOf(i)[k])}

\* row i's First Date comes before row j's: a parseable date before an
\* unparseable one, the earlier of two dates first, the file order on a tie
ComesBefore(i, j) ==
    LET di == parse_date(df[i]["First Date"])
        dj == parse_date(df[j]["First Date"])
    IN  IF di.none # dj.none THEN dj.none
        ELSE IF ~di.none /\ DateOrd(di) # DateOrd(dj) THEN DateOrd(di) < DateOrd(dj)
        ELSE i < j

\* C1: after validate_record_uniqueness, in every species group with more than
\* one affirmative State Record row exactly one of these rows carries no
\* 'Duplicate state record' error and every other one is invalid and carries
\* the error, which names the spared row; every other row of the dataset (the
\* only affirmative row of its group, a row that is not affirmative, a row
\* without species) carries no such error.
C1_DuplicateStateRecords ==
    runs >= 1 =>
        \A i \in Rows :
            IF StateAffirmative(i) /\ Cardinality(StateRivals(i)) > 1
            THEN \E k \in StateRivals(i) :
                    /\ DuplicateStateErrors(k) = {}
                    /\ \A j \in StateRivals(i) \ {k} :
                          /\ DuplicateStateErrors(j) # {}
                          /\ ~all_results[j].is_valid
                          /\ \A e \in DuplicateStateErrors(j) : ErrorsOf(j)[e].row = k
            ELSE DuplicateStateErrors(i) = {}

\* two Y rows of one species dated 01-JAN-20 and 01-JAN-22: only the second is flagged
C1_Witness ==
    /\ runs = 1
    /\ Len(df) = 2
    /\ SameSpecies(1, 2)
    /\ df[1]["State Record"] = Str(s_Y) /\ df[1]["First Date"] = Str(s_01_JAN_20)
    /\ df[2]["State Record"] = Str(s_Y) /\ df[2]["First Date"] = Str(s_01_JAN_22)
    /\ DuplicateStateErrors(1) = {} /\ all_results[1].is_valid
    /\ DuplicateStateErrors(2) # {} /\ ~all_results[2].is_valid

\* C2: the row _find_earliest_record selects (the one row of its rivals the
\* pass spares) comes before every other candidate: its First Date parses and
\* theirs does not, or it is the earlier date, or the dates are the same (or
\* all unparseable) and it is first in the file.
C2_EarliestRecordKept ==
    runs >= 1 =>
        \A i \in Rows :
            (StateAffirmative(i) /\ Cardinality(StateRivals(i)) > 1
                /\ DuplicateStateErrors(i) = {})
            => \A j \in StateRivals(i) \ {i} : ComesBefore(i, j)

\* three state records of one species: an unparseable date first in the file,
\* then twice the same date; the first of the two equal dates is kept
C2_Witness ==
    /\ runs = 1
    /\ Len(df) = 3
    /\ StateRivals(1) = {1, 2, 3}
    /\ parse_date(df[1]["First Date"]).none
    /\ ~parse_date(df[2]["First Date"]).none
    /\ parse_date(df[2]["First Date"]) = parse_date(df[3]["First Date"])
    /\ DuplicateStateErrors(2) = {}
    /\ DuplicateStateErrors(1) # {} /\ DuplicateStateErrors(3) # {}

\* C3: per species and County, with more than one affirmative County Record row
\* exactly the earliest is spared and every other one is invalid with a
\* 'Duplicate county record' error; a row whose (species, County) has no other
\* affirmative row carries no such error, whatever other counties hold.
C3_DuplicateCountyRecords ==
    runs >= 1 =>
        \A i \in Rows :
            IF CountyAffirmative(i) /\ Cardinality(CountyRivals(i)) > 1
            THEN \E k \in CountyRivals(i) :
                    /\ DuplicateCountyErrors(k) = {}
                    /\ \A j \in CountyRivals(i) \ {k} :
                          /\ ComesBefore(k, j)
                          /\ DuplicateCountyErrors(j) # {}
                          /\ ~all_results[j].is_valid
            ELSE DuplicateCountyErrors(i) = {}

\* one species, two county records in Door and one in Dane: the later Door row
\* is flagged, the Dane row is not
C3_Witness ==
    /\ runs = 1
    /\ Len(df) = 3
    /\ SameSpecies(1, 2) /\ SameSpecies(2, 3)
    /\ \A i \in Rows : CountyAffirmative(i)
    /\ Field(1, "County") = s_Door /\ Field(2, "County") = s_Dane
    /\ Field(3, "County") = s_Door
    /\ DuplicateCountyErrors(1) = {} /\ DuplicateCountyErrors(2) = {}
    /\ DuplicateCountyErrors(3) # {}

\* C4 (as claimed): however often the pass is run, a row holds at most one
\* duplicate-state-record error and at most one duplicate-county-record error.
C4_AtMostOneDuplicateError ==
    \A i \in Rows :
        /\ Cardinality(DuplicateStateErrors(i)) <= 1
        /\ Cardinality(DuplicateCountyErrors(i)) <= 1

-----------------------------------------------------------------------------
(* Properties of hallucination detection *)

AllowList(f) == IF f = "Comments" THEN CommentAbbreviations ELSE LocationAbbreviations

\* the tokens of result r's correction of field f that are neither in the
\* original text of row i nor in the allow-list; empty unless the correction
\* is there and is marked ai_shortened
Invented(i, r, f) ==
    IF /\ f \in DOMAIN r.corrections
       /\ f \in DOMAIN r.field_results
       /\ "ai_shortened" \in r.field_results[f].metadata.truthy
    THEN (extract_tokens(str(r.corrections[f])) \ extract_tokens(str(df[i][f])))
            \ AllowList(f)
    ELSE {}

IsHallucinationError(e, f) ==
    e.prefix = f /\ e.text = "LLM hallucination detected - added content not in original"

\* what one pass does to the row result r of row i, giving r2
PassEffect(i, r, r2) ==
    LET fields == {"Specific Location", "Comments"}
        bad == {f \in fields : Invented(i, r, f) # {}}
        added == SubSeq(r2.errors, Len(r.errors) + 1, Len(r2.errors))
    IN  IF bad = {} THEN r2 = r
        ELSE /\ ~r2.is_valid
             /\ DOMAIN r2.corrections = (DOMAIN r.corrections) \ bad
             /\ \A f \in DOMAIN r2.corrections : r2.corrections[f] = r.corrections[f]
             /\ SubSeq(r2.errors, 1, Len(r.errors)) = r.errors
             /\ Len(added) = Cardinality(bad)
             /\ \A f \in bad :
                   \E k \in 1..Len(added) :
                       /\ IsHallucinationError(added[k], f)
                       /\ added[k].tokens = Invented(i, r, f)

\* C5: a pass of validate_hallucinations over results that carry a row_index (as
\* every result of validate_row does) marks a row invalid, appends one error
\* naming exactly the invented tokens and removes the correction for every
\* ai_shortened correction of Specific Location or Comments that holds a token
\* neither in the original nor in the allow-list; a row without such a
\* correction is left as it was.
C5_HallucinationPass ==
    [][\A i \in 1..Len(all_results) :
          all_results[i].row_index # NoIndex
              => PassEffect(i, all_results[i], all_results'[i])]_vars

\* a row with the correction 'Hwy 61 Zork' of 'Highway 61' has lost it and names ZORK
C5_Witness ==
    /\ runs = 1
    /\ \E i \in 1..Len(all_results) :
          /\ "Comments" \in DOMAIN all_results[i].field_results
          /\ all_results[i].field_results["Comments"].correction = Str(s_Hwy_61_Zork)
          /\ "Comments" \notin DOMAIN all_results[i].corrections
          /\ ~all_results[i].is_valid
          /\ \E k \in 1..Len(all_results[i].errors) :
                /\ IsHallucinationError(all_results[i].errors[k], "Comments")
                /\ all_results[i].errors[k].tokens = {<<"Z", "O", "R", "K">>}

\* C6 (as claimed): a pass leaves a row alone whose ai_shortened Comments
\* correction is 'HWY61' where the original holds 'Highway 61'.
C6_HWY61NotFlagged ==
    [][\A i \in 1..Len(all_results) :
          (/\ all_results[i].row_index # NoIndex
           /\ df[i]["Comments"] = Str(s_Highway_61)
           /\ "Comments" \in DOMAIN all_results[i].corrections
           /\ all_results[i].corrections["Comments"] = Str(s_HWY61)
           /\ "Comments" \in DOMAIN all_results[i].field_results
           /\ "ai_shortened" \in all_results[i].field_results["Comments"].metadata.truthy)
          => all_results'[i] = all_results[i]]_vars

-----------------------------------------------------------------------------
(* Properties of validate_file, stated on the rows kept (df_filtered), the row
   results and the output (validated_df) once the function has returned *)

OutRows == 1..Len(validated_df)

OutField(i, column) == strip(str(validated_df[i][column]))

\* the output rows i and j carry the same, complete species
SameSpeciesOut(i, j) ==
    /\ \A c \in {"Family", "Genus", "Species"} : OutField(i, c) # <<>> /\ OutField(j, c) # <<>>
    /\ \A c \in {"Family", "Genus", "Species", "Sub-species"} : OutField(i, c) = OutField(j, c)

IsYOut(i, column) == upper(OutField(i, column)) = s_Y

\* C7 (as claimed): when validate_file has returned, of two output rows of one
\* species whose State Record is Y at least one carries a duplicate-state-record
\* error, and of two output rows of one species and one County whose County
\* Record is Y at least one carries a duplicate-county-record error.
C7_OneRecordPerSpeciesInOutput ==
    pc = "done" =>
        \A i, j \in OutRows :
            (i # j /\ SameSpeciesOut(i, j)) =>
                /\ (IsYOut(i, "State Record") /\ IsYOut(j, "State Record"))
                      => (DuplicateStateErrors(i) # {} \/ DuplicateStateErrors(j) # {})
                /\ (/\ IsYOut(i, "County Record") /\ IsYOut(j, "County Record")
                    /\ OutField(i, "County") = OutField(j, "County"))
                      => (DuplicateCountyErrors(i) # {} \/ DuplicateCountyErrors(j) # {})

\* C8 (as claimed): when validate_file has returned, a row whose Specific
\* Location or Comments was shortened by the oracle into a text with a token
\* neither in the original nor in the allow-list is invalid and its output cell
\* holds the original value.
C8_HallucinationNotWritten ==
    pc = "done" =>
        \A i \in OutRows, f \in {"Specific Location", "Comments"} :
            (/\ f \in DOMAIN all_results[i].field_results
             /\ "ai_shortened" \in all_results[i].field_results[f].metadata.truthy
             /\ all_results[i].field_results[f].correction # None
             /\ HallucinatedTokens(strip(str(df_filtered[i][f])),
                                   all_results[i].field_results[f].correction, f) # {})
            => /\ validated_df[i][f] = df_filtered[i][f]
               /\ ~all_results[i].is_valid

-----------------------------------------------------------------------------
(* Properties of validate_row, stated on the row results and on the invocation
   log of the latest call *)

IsCaughtFailure(e) == e.prefix = "Validation error"

CaughtFailures(r) == {k \in 1..Len(r.errors) : IsCaughtFailure(r.errors[k])}

\* C9 (as claimed): a row result that records a caught failure of a validator
\* is invalid and holds a field result for every column but the one whose
\* validator raised.
C9_LaterValidatorsStillRun ==
    \A i \in 1..Len(all_results) :
        CaughtFailures(all_results[i]) # {} =>
            /\ ~all_results[i].is_valid
            /\ Cardinality(Columns \ DOMAIN all_results[i].field_results) <= 1

\* C10 (as claimed): the latest call of validate_row invoked the 16 validators
\* once each in the order of the columns; the State Record and County Record
\* validators found in the row dict the taxon id the Species validator noted,
\* and the County Record validator the place id the County validator noted.
C10_ValidatorsOnceInOrder ==
    index >= 1 =>
        LET fields == all_results[Len(all_results)].field_results
        IN  /\ Len(calls) = Len(COLUMN_NAMES)
            /\ \A k \in 1..Len(calls) : calls[k].validator = COLUMN_NAMES[k]
            /\ "inat_taxon_id" \in fields["Species"].metadata.keys
                  => /\ calls[9].taxon_id = fields["Species"].metadata.inat_taxon_id
                     /\ calls[10].taxon_id = fields["Species"].metadata.inat_taxon_id
            /\ "inat_place_id" \in fields["County"].metadata.keys
                  => calls[10].place_id = fields["County"].metadata.inat_place_id

-----------------------------------------------------------------------------
(* The row context (SpecRow) *)

\* the result of the row validated last
LastResult == all_results[Len(all_results)]

\* the identifier the validator of column owner resolved for the row of result
\* r (None if it resolved none)
ResolvedId(r, owner) ==
    IF owner \notin DOMAIN r.field_results THEN None
    ELSE IF owner = "Species" THEN r.field_results[owner].metadata.inat_taxon_id
    ELSE r.field_results[owner].metadata.inat_place_id

\* the record validator of column c asked the observation-count oracle
Counted(r, c) ==
    /\ c \in DOMAIN r.field_results
    /\ "inat_existing_count" \in r.field_results[c].metadata.keys

\* C11: the row context is created fresh for each row. A validator of a row
\* reads a taxon id (place id) in the context only after the Species (County)
\* validator of the same row ran, and only the id that validator resolved for
\* this row; so when the row's own lookup resolved nothing, the record
\* validators never count observations with an id of an earlier row.
C11_FreshRowContext ==
    all_results # <<>> =>
        /\ \A k \in 1..Len(calls) :
              /\ calls[k].taxon_id # None =>
                    k > 6 /\ calls[k].taxon_id = ResolvedId(LastResult, "Species")
              /\ calls[k].place_id # None =>
                    k > 8 /\ calls[k].place_id = ResolvedId(LastResult, "County")
        /\ ResolvedId(LastResult, "Species") = None =>
              ~Counted(LastResult, "State Record") /\ ~Counted(LastResult, "County Record")

\* a second row whose species lookup failed, after a row whose taxon and place
\* were resolved: all its validators ran and none read an id
C11_Witness ==
    /\ Len(all_results) = 2
    /\ ResolvedId(all_results[1], "Species") # None
    /\ ResolvedId(all_results[1], "County") # None
    /\ ~IsBlank(df[2]["Species"])
    /\ ResolvedId(all_results[2], "Species") = None
    /\ Len(calls) = 16
    /\ \A k \in 1..16 : calls[k].taxon_id = None

-----------------------------------------------------------------------------
(* Failures of the external services (SpecRow) *)

\* the row validated last
LastRow == df[Len(all_results)]

\* the oracle-backed validators of the taxonomy, the county and the records, by
\* their place in the order of the columns
LookupValidators == {4, 6, 7, 8}
RecordValidators == {9, 10}

\* the external lookup behind answer a timed out, raised or was unreachable
LookupFailed(a) ==
    \/ a.kind = "raise"
    \/ a.kind = "error"
    \/ a.kind = "invalid" /\ "needs_manual_review" \in DOMAIN a

\* the k-th validator of the last row reached its call of the external service
Asked(k) ==
    LET v == LastRow[COLUMN_NAMES[k]]
    IN  CASE k = 4 -> ~IsBlank(v)
          [] k = 6 -> ~IsBlank(v) /\ truthy(LastRow["Genus"])
          [] k = 7 -> /\ ~IsBlank(v) /\ lower(strip(str(v))) # <<>>
                      /\ truthy(LastRow["Genus"]) /\ truthy(LastRow["Species"])
          [] k = 8 -> ~IsBlank(v) /\ truthy(LastRow["State"]) /\ truthy(LastRow["Country"])
          [] k = 9 -> /\ IsBlank(v) \/ strip(upper(str(v))) \in {s_Y, s_N}
                      /\ truthy(calls[k].taxon_id) /\ truthy(LastRow["State"])
          [] OTHER -> /\ IsBlank(v) \/ strip(upper(str(v))) \in {s_Y, s_N}
                      /\ truthy(calls[k].taxon_id) /\ truthy(calls[k].place_id)

\* the validators of the last row whose external lookup was made and failed
FailedLookups ==
    {k \in (LookupValidators \cup RecordValidators) \cap (1..Len(calls)) :
        /\ COLUMN_NAMES[k] \in DOMAIN LastResult.field_results
        /\ Asked(k)
        /\ LookupFailed(calls[k].answer)}

\* the errors that report a lookup without a match
NotFoundTexts ==
    {"Family '{}' not found in iNaturalist", "Species '{} {}' not found in iNaturalist",
     "Subspecies '{}' not found in iNaturalist"}
ReportsNotFound(r) == \E e \in 1..Len(r.errors) : r.errors[e].text \in NotFoundTexts

\* the metadata flags that ask for a manual review
ReviewFlags == {"needs_human_review", "needs_inat_check", "needs_inat_verification"}

\* C12 (as claimed): when the external lookup of the Family, Species,
\* Sub-species, County, State Record or County Record validator times out,
\* raises or is unreachable, the validator adds no error for it and does not
\* make the field invalid, and adds a warning and a manual-review flag instead.
C12_OracleFailureOnlyWarns ==
    all_results # <<>> =>
        \A k \in FailedLookups :
            LET r == LastResult.field_results[COLUMN_NAMES[k]]
            IN  /\ ~ReportsNotFound(r)
                /\ r.warnings # <<>>
                /\ r.metadata.truthy \cap ReviewFlags # {}

-----------------------------------------------------------------------------
(* The record validators (SpecRow) *)

\* the record validators of the last row that asked the observation-count
\* oracle and got a count
CountedRecords ==
    {k \in RecordValidators \cap (1..Len(calls)) :
        /\ COLUMN_NAMES[k] \in DOMAIN LastResult.field_results
        /\ Asked(k)
        /\ calls[k].answer.kind = "counted"}

\* the record flag of the last row in column k: "" for a blank cell
RecordFlag(k) ==
    IF IsBlank(LastRow[COLUMN_NAMES[k]]) THEN <<>>
    ELSE strip(upper(str(LastRow[COLUMN_NAMES[k]])))

\* C13: with the taxon id and the place context at hand and a count from the
\* oracle, both record validators give: Y with prior observations, invalid with
\* an error; N with none, invalid with an error and the correction Y (a
\* correction); blank with none, valid, the correction Y (a correction) and a
\* warning; blank with prior observations, valid, the correction N (a
\* normalization) and no warning; Y with none or N with prior observations,
\* valid with no error.
C13_RecordFlagAgainstCount ==
    all_results # <<>> =>
        \A k \in CountedRecords :
            LET r == LastResult.field_results[COLUMN_NAMES[k]]
                prior == calls[k].answer.count > 0
                flag == RecordFlag(k)
            IN  CASE flag = s_Y /\ prior -> ~r.is_valid /\ r.errors # <<>>
                  [] flag = s_N /\ ~prior ->
                        /\ ~r.is_valid /\ r.errors # <<>>
                        /\ r.correction = Str(s_Y) /\ r.correction_type = "correction"
                  [] flag = <<>> /\ ~prior ->
                        /\ r.is_valid /\ r.warnings # <<>>
                        /\ r.correction = Str(s_Y) /\ r.correction_type = "correction"
                  [] flag = <<>> /\ prior ->
                        /\ r.is_valid /\ r.warnings = <<>>
                        /\ r.correction = Str(s_N) /\ r.correction_type = "normalization"
                  [] OTHER -> r.is_valid /\ r.errors = <<>>

\* a row marked as a state record and not as a county record, the species
\* known in the state and in the county: the state flag is refused, the county
\* flag stands
C13_Witness ==
    /\ all_results # <<>>
    /\ CountedRecords = RecordValidators
    /\ RecordFlag(9) = s_Y /\ RecordFlag(10) = s_N
    /\ calls[9].answer.count > 0 /\ calls[10].answer.count > 0
    /\ ~LastResult.field_results["State Record"].is_valid
    /\ LastResult.field_results["County Record"].is_valid

\* the record validators of the last row that found the observation-count
\* oracle unavailable or the taxon unresolved
UnverifiableRecords ==
    {k \in RecordValidators \cap (1..Len(calls)) :
        /\ COLUMN_NAMES[k] \in DOMAIN LastResult.field_results
        /\ \/ ~truthy(calls[k].taxon_id)
           \/ Asked(k) /\ calls[k].answer.kind \in {"no_adapter", "error", "raise"}}

\* C14 (as claimed): when the observation-count oracle is unavailable or the
\* taxon is unresolved, a blank record flag gets the correction N and a
\* warning, and the result stays valid.
C14_BlankDefaultsToN ==
    all_results # <<>> =>
        \A k \in UnverifiableRecords :
            LET r == LastResult.field_results[COLUMN_NAMES[k]]
            IN  RecordFlag(k) = <<>> =>
                    r.is_valid /\ r.correction = Str(s_N) /\ r.warnings # <<>>

-----------------------------------------------------------------------------
(* The text-shortening oracle (SpecRow) *)

\* the validator of column c ran on the last row with a text over limit
\* characters and its text-shortening oracle answered with a (kind "text") or
\* failed (kind "raise")
ShorteningAsked(k, limit, kind) ==
    /\ all_results # <<>>
    /\ k <= Len(calls)
    /\ COLUMN_NAMES[k] \in DOMAIN LastResult.field_results
    /\ ~IsBlank(LastRow[COLUMN_NAMES[k]])
    /\ Len(strip(str(LastRow[COLUMN_NAMES[k]]))) > limit
    /\ calls[k].answer.kind = kind

\* C15 (as claimed): when Comments exceeds 120 characters and the
\* text-shortening oracle fails, the row result's errors hold a Comments error
\* about the failed shortening, the row is not valid, and no correction is
\* proposed for Comments.
C15_FailedShorteningIsError ==
    ShorteningAsked(15, 120, "raise") =>
        /\ \E e \in 1..Len(LastResult.errors) :
              /\ LastResult.errors[e].prefix = "Comments"
              /\ LastResult.errors[e].text = "Could not automatically shorten comment: {}"
        /\ ~LastResult.is_valid
        /\ "Comments" \notin DOMAIN LastResult.corrections

\* the field result of column c in the result of the last row
LastField(c) == LastResult.field_results[c]

\* C16: when Specific Location exceeds 50 characters and the oracle's output
\* exceeds 50 characters too, the output is discarded: no correction is
\* proposed, the result is invalid with the error "Auto-shortening failed -
\* needs manual review" and the flag needs_manual_shortening is set; a
\* correction is proposed only when the location exceeds 50 characters and
\* the oracle's output has at most 50, and it is that output.
C16_LongOutputDiscarded ==
    /\ (ShorteningAsked(11, 50, "text") /\ Len(strip(calls[11].answer.text)) > 50) =>
          /\ LastField("Specific Location").correction = None
          /\ "Specific Location" \notin DOMAIN LastResult.corrections
          /\ ~LastField("Specific Location").is_valid
          /\ \E e \in 1..Len(LastField("Specific Location").errors) :
                LastField("Specific Location").errors[e].text
                    = "Auto-shortening failed - needs manual review"
          /\ "needs_manual_shortening" \in LastField("Specific Location").metadata.truthy
    /\ (/\ all_results # <<>>
        /\ "Specific Location" \in DOMAIN LastResult.field_results
        /\ LastField("Specific Location").correction # None) =>
          /\ ShorteningAsked(11, 50, "text")
          /\ Len(strip(calls[11].answer.text)) <= 50
          /\ LastField("Specific Location").correction = Str(strip(calls[11].answer.text))

\* a location over the limit whose shortening came back over the limit, after
\* all validators of the row ran
C16_Witness ==
    /\ ShorteningAsked(11, 50, "text")
    /\ Len(strip(calls[11].answer.text)) > 50
    /\ Len(calls) = 16
    /\ "needs_manual_shortening" \in LastField("Specific Location").metadata.truthy

-----------------------------------------------------------------------------
(* The Year of a row without one (SpecRow) *)

\* the Year validator ran on the last row and found its cell blank
YearBlank ==
    /\ all_results # <<>>
    /\ "Year" \in DOMAIN LastResult.field_results
    /\ IsBlank(LastRow["Year"])

\* C17 (as claimed): when Year is blank and the row's First Date is resolvable
\* to a date (a date object, or a string in a notation the First Date
\* validator accepts), the result is valid with that date's year as
\* correction, classified as correction, and a warning; "Year is required" is
\* reported only when First Date is not resolvable.
C17_YearFromFirstDate ==
    YearBlank =>
        LET resolved == ResolveDate(LastRow["First Date"])
        IN  IF resolved.kind = "date"
            THEN /\ LastField("Year").is_valid
                 /\ LastField("Year").correction = IntCell(resolved.date_obj.y)
                 /\ LastField("Year").correction_type = "correction"
                 /\ LastField("Year").warnings # <<>>
            ELSE \E e \in 1..Len(LastField("Year").errors) :
                     LastField("Year").errors[e].text = "Year is required"

-----------------------------------------------------------------------------
(* The output of validate_file (Spec) *)

FieldInvalid(r, c) == c \in DOMAIN r.field_results /\ ~r.field_results[c].is_valid
HasCorrection(r, c) == c \in DOMAIN r.corrections
HasRealCorrection(r, c) ==
    /\ HasCorrection(r, c)
    /\ c \in DOMAIN r.field_results
    /\ r.field_results[c].correction_type = "correction"
ValidWithWarnings(r, c) ==
    /\ c \in DOMAIN r.field_results
    /\ r.field_results[c].is_valid
    /\ r.field_results[c].warnings # <<>>

\* the presentation classes by their fills
ErrorClass == "red"
CorrectedClass == "orange"
WarningClass == "yellow"
PassClass == "none"

\* C19: the class of a cell of the saved workbook is error if the field is
\* invalid and has no correction in the correction map after the QA pass;
\* otherwise corrected if it has a correction there of kind "correction";
\* otherwise warning if the field is valid and has warnings; otherwise pass.
C19_ColorPrecedence ==
    workbook.kind = "xlsx" =>
        /\ Len(workbook.fills) = Len(all_results)
        /\ \A i \in 1..Len(workbook.fills) : \A c \in Columns :
              workbook.fills[i][c] =
                  IF FieldInvalid(all_results[i], c) /\ ~HasCorrection(all_results[i], c)
                  THEN ErrorClass
                  ELSE IF HasRealCorrection(all_results[i], c) THEN CorrectedClass
                  ELSE IF ValidWithWarnings(all_results[i], c) THEN WarningClass
                  ELSE PassClass

\* a workbook that shows all four classes, an orange cell among them whose
\* field is valid and has warnings
C19_Witness ==
    /\ workbook.kind = "xlsx"
    /\ \A class \in {ErrorClass, CorrectedClass, WarningClass, PassClass} :
          \E i \in 1..Len(workbook.fills) : \E c \in Columns : workbook.fills[i][c] = class
    /\ \E i \in 1..Len(workbook.fills) : \E c \in Columns :
          workbook.fills[i][c] = CorrectedClass /\ ValidWithWarnings(all_results[i], c)

-----------------------------------------------------------------------------
(* The review flag of a row (SpecRow) *)

\* the columns of row result r whose validator flagged that its verification
\* against the external source is open
FlaggedForReview(r) ==
    {c \in DOMAIN r.field_results : r.field_results[c].metadata.truthy \cap ReviewFlags # {}}

\* C20 (as claimed): validate_row sets needs_review whenever some validator of
\* the row flagged a verification against an external source that could not
\* be completed, such as a lookup that was not found and flagged manual
\* review, and leaves it false when no validator flagged one.
C20_NeedsReviewFollowsFlags ==
    all_results # <<>> => (LastResult.needs_review <=> FlaggedForReview(LastResult) # {})

-----------------------------------------------------------------------------
(* The messages of a row result (Spec) *)

\* C21 (as claimed): every entry of a row result's errors and warnings,
\* whether validate_row added it (its except clause included) or the QA pass,
\* is prefixed with one of the 16 column names.
C21_MessagesNameAColumn ==
    \A i \in 1..Len(all_results) :
        /\ \A e \in 1..Len(all_results[i].errors) : all_results[i].errors[e].prefix \in Columns
        /\ \A w \in 1..Len(all_results[i].warnings) :
              all_results[i].warnings[w].prefix \in Columns

-----------------------------------------------------------------------------
(* SpecField: validate_row on one row that differs from the sample row in the
   cells of one group of columns, to try each validator on many values *)

\* days, months and years of the date strings tried
FieldDays == {0, 1, 15, 29, 30, 31}
FieldMonths == {<<"J", "A", "N">>, <<"F", "E", "B">>, <<"J", "U", "N">>, <<"J", "U", "L">>,
                <<"Z", "Z", "Z">>}
FieldYears == {0, 24, 25, 26, 49, 50, 99}

\* the strings DD-MMM-YY of these
CanonicalStrings ==
    {TwoDigits(d) \o <<"-">> \o m \o <<"-">> \o TwoDigits(y) :
        d \in FieldDays, m \in FieldMonths, y \in FieldYears}

\* rows with the same date string as First Date and Last Date
DateRows == {RowWith("First Date" :> Str(s) @@ "Last Date" :> Str(s)) : s \in CanonicalStrings}

\* Country cells: the three codes in several spellings, other texts, a number
CountryValues ==
    {Str(<<"c", "a", "n">>),
     Str(<<"u", "S", "a">>),
     Str(<<" ", " ", "C", "A", "N", " ", " ">>),
     Str(<<"U", "S", "A">>),
     Str(<<"M", "E", "X">>),
     Str(<<"m", "e", "x", " ">>),
     Str(<<"U", "K">>),
     Str(<<"U", "S">>),
     Str(<<"U", "S", "A", "A">>),
     Str(<<" ", " ", " ">>),
     Str(<<"U", " ", "S", " ", "A">>),
     Str(<<"C", "A", "N", "A", "D", "A">>),
     Str(<<"G", "B", "R">>),
     IntCell(1)}
CountryRows == {RowWith("Country" :> v) : v \in CountryValues}

\* County cells with and without the words County, Province and Territory,
\* each with the text expected of it once these words are taken out
CountySamples ==
    {<<<<"D", "a", "n", "e", " ", "C", "o", "u", "n", "t", "y">>,
       <<"D", "a", "n", "e">>>>,
     <<<<"D", "a", "n", "e">>,
       <<"D", "a", "n", "e">>>>,
     <<<<"D", "a", "n", "e", " ", "c", "o", "u", "n", "t", "y">>,
       <<"D", "a", "n", "e", " ", "c", "o", "u", "n", "t", "y">>>>,
     <<<<" ", "D", "o", "o", "r", " ", "C", "o", "u", "n", "t", "y", " ">>,
       <<"D", "o", "o", "r">>>>,
     <<<<"C", "o", "u", "n", "t", "y", " ", "L", "i", "n", "e", " ", "C", "o", "u", "n", "t", "y">>,
       <<"L", "i", "n", "e">>>>,
     <<<<"N", "o", "r", "t", "h", "w", "e", "s", "t", " ", "T", "e", "r", "r", "i", "t", "o", "r", "y">>,
       <<"N", "o", "r", "t", "h", "w", "e", "s", "t">>>>,
     <<<<"Q", "u", "e", "b", "e", "c", " ", "P", "r", "o", "v", "i", "n", "c", "e">>,
       <<"Q", "u", "e", "b", "e", "c">>>>,
     <<<<"C", "o", "u", "n", "t", "y">>,
       <<>>>>,
     <<<<"P", "r", "i", "n", "c", "e", " ", "E", "d", "w", "a", "r", "d", " ", "C", "o", "u", "n", "t", "y", " ", "A", "r", "e", "a">>,
       <<"P", "r", "i", "n", "c", "e", " ", "E", "d", "w", "a", "r", "d", " ", " ", "A", "r", "e", "a">>>>,
     <<<<"S", "t", " ", "L", "o", "u", "i", "s", " ", "C", "o", "u", "n", "t", "y", " ", "T", "e", "r", "r", "i", "t", "o", "r", "y", " ", "N", "o", "r", "t", "h">>,
       <<"S", "t", " ", "L", "o", "u", "i", "s", " ", " ", " ", "N", "o", "r", "t", "h">>>>,
     <<<<"P", "r", "o", "v", "C", "o", "u", "n", "t", "y", "i", "n", "c", "e">>,
       <<>>>>}
CountyRows == {RowWith("County" :> Str(p[1])) : p \in CountySamples}

\* every way of leaving Zone, Country and State out of a row or in it
ZoneCells == {NaN, Str(<<>>), IntCell(6), Str(<<" ">>)}
CountryCells == {NaN, Str(<<>>), Str(<<"U", "S", "A">>), Str(<<" ", " ">>)}
StateCells == {NaN, Str(<<>>), Str(<<"W", "I">>)}
TriadRows ==
    {RowWith("Zone" :> z @@ "Country" :> c @@ "State" :> st) :
        z \in ZoneCells, c \in CountryCells, st \in StateCells}

\* families of the list and outside it
FamilyCells ==
    {Str(<<"N", "y", "m", "p", "h", "a", "l", "i", "d", "a", "e">>),
     Str(<<"S", "e", "s", "i", "i", "d", "a", "e">>),
     Str(<<"U", "n", "k", "n", "o", "w", "n", "f", "a", "m", "i", "l", "y">>),
     Str(<<"U", "n", "k", "n", "o", "w", "n", "F", "a", "m", "i", "l", "y">>),
     Str(<<"Z", "z", "z">>)}
FamilyRows == {RowWith("Family" :> v) : v \in FamilyCells}

\* First Dates in notations other than DD-MMM-YY
OtherDateRows ==
    {RowWith("First Date" :> Str(<<"2", "0", "2", "4", "-", "0", "7", "-", "1", "5">>)),
     RowWith("First Date" :> Str(<<"0", "7", "/", "1", "5", "/", "2", "0", "2", "4">>)),
     RowWith("First Date" :> Str(<<"1", "5", "-", "J", "u", "l", "-", "2", "0", "2", "4">>))}

FieldRows ==
    DateRows \cup CountryRows \cup CountyRows \cup TriadRows \cup FamilyRows \cup OtherDateRows

\* the answers of the external services tried: all found, none reachable, a
\* shortened text that is still too long
FieldOracles ==
    {AllFound,
     [AllFound EXCEPT !.family = NoAdapter],
     Unavailable,
     [AllFound EXCEPT !.location = LlmAnswer("text", s_long_location)]}

InitField ==
    /\ df \in {<<row>> : row \in FieldRows}
    /\ all_results = <<>>
    /\ pc = "field"
    /\ index = 0
    /\ valid_indices = <<>>
    /\ df_filtered = <<>>
    /\ validated_df = <<>>
    /\ runs = 0
    /\ calls = <<>>
    /\ workbook = NoWorkbook

\* result = self.validate_row(0, row) for the row of df
ValidateFieldRow ==
    /\ pc = "field"
    /\ index < Len(df)
    /\ \E oracle \in FieldOracles :
          \E out \in {validate_row(index, df[index + 1], oracle)} :
              /\ all_results' = Append(all_results, out.results)
              /\ calls' = out.calls
    /\ index' = index + 1
    /\ UNCHANGED <<df, pc, valid_indices, df_filtered, validated_df, runs, workbook>>

NextField == ValidateFieldRow

SpecField == InitField /\ [][NextField]_vars

-----------------------------------------------------------------------------
(* The date validators (SpecField) *)

\* s has the form DD-MMM-YY: two digits, three capital letters, two digits
IsCanonicalForm(s) ==
    /\ Len(s) = 9
    /\ s[3] = "-" /\ s[7] = "-"
    /\ \A k \in {1, 2, 8, 9} : IsDigit(s[k])
    /\ \A k \in {4, 5, 6} : IsUpper(s[k])

\* the calendar date a string of that form denotes, its year in 1950..2049
\* (NoDate if it denotes none)
DenotedDate(s) ==
    LET yy == DigitsValue(SubSeq(s, 8, 9))
    IN  MakeDate(IF yy < 50 THEN 2000 + yy ELSE 1900 + yy,
                 IndexIn(MonthNames, lower(SubSeq(s, 4, 6))),
                 DigitsValue(SubSeq(s, 1, 2)))

\* the date columns of the last row that hold a string of the canonical form
\* and were validated
CanonicalDateCells ==
    {c \in {"First Date", "Last Date"} :
        /\ all_results # <<>>
        /\ c \in DOMAIN LastResult.field_results
        /\ isstr(LastRow[c])
        /\ IsCanonicalForm(LastRow[c].s)}

-----------------------------------------------------------------------------
(* The Country validator (SpecField) *)

\* the three country codes
CountryCodes == {<<"U", "S", "A">>, <<"C", "A", "N">>, <<"M", "E", "X">>}

\* the last row's Country was validated and is not empty
CountryGiven ==
    /\ all_results # <<>>
    /\ "Country" \in DOMAIN LastResult.field_results
    /\ ~IsBlank(LastRow["Country"])

\* C23: a non-empty Country whose trimmed, uppercased form is USA, CAN or MEX
\* is valid and gets that form as its correction, of kind normalization; every
\* other non-empty value is invalid with an error.
C23_CountryCodes ==
    CountryGiven =>
        LET code == strip(upper(str(LastRow["Country"])))
        IN  IF code \in CountryCodes
            THEN /\ LastField("Country").is_valid
                 /\ LastField("Country").correction = Str(code)
                 /\ LastField("Country").correction_type = "normalization"
            ELSE ~LastField("Country").is_valid /\ LastField("Country").errors # <<>>

\* the code of Canada in lower case, validated and put in capitals
C23_Witness ==
    /\ CountryGiven
    /\ LastRow["Country"] = Str(<<"c", "a", "n">>)
    /\ LastField("Country").is_valid
    /\ LastField("Country").correction = Str(<<"C", "A", "N">>)

-----------------------------------------------------------------------------
(* The County validator (SpecField) *)

\* the samples whose cell the last row holds in County, the validator having
\* run on it
CountyTried ==
    {p \in CountySamples :
        /\ all_results # <<>>
        /\ "County" \in DOMAIN LastResult.field_results
        /\ LastRow["County"] = Str(p[1])}

\* text holds one of the words County, Province, Territory
HasSuffixWord(text) ==
    \E word \in {<<"C", "o", "u", "n", "t", "y">>, <<"P", "r", "o", "v", "i", "n", "c", "e">>,
                 <<"T", "e", "r", "r", "i", "t", "o", "r", "y">>} :
        \E k \in 1..(Len(text) - Len(word) + 1) :
            SubSeq(text, k, k + Len(word) - 1) = word

\* C24: a County that holds one of the words County, Province, Territory gets
\* as correction the value without these words, trimmed, of kind correction,
\* and a warning; a value without them gets no correction; a value of more
\* than 20 characters (blanks around it aside) is invalid also when what is
\* left of it fits, and the correction is proposed all the same.
C24_CountySuffix ==
    \A p \in CountyTried :
        /\ IF HasSuffixWord(p[1])
           THEN /\ LastField("County").correction = Str(p[2])
                /\ LastField("County").correction_type = "correction"
                /\ \E w \in 1..Len(LastField("County").warnings) :
                      LastField("County").warnings[w].text
                          = "Remove 'County/Province/Territory' from name"
           ELSE LastField("County").correction = None
        /\ Len(strip(p[1])) > 20 =>
              ~LastField("County").is_valid /\ LastField("County").errors # <<>>

\* a county of 25 characters with the word County in it: invalid, and the 19
\* characters left of it proposed
C24_Witness ==
    /\ \E p \in CountyTried : Len(p[1]) > 20 /\ Len(p[2]) <= 20 /\ HasSuffixWord(p[1])
    /\ ~LastField("County").is_valid
    /\ LastField("County").correction # None

-----------------------------------------------------------------------------
(* Zone, Country and State left out (SpecField) *)

Triad == {"Zone", "Country", "State"}

\* the cell holds nothing: NaN, None or the string of no characters
CellEmpty(v) == v.t \in {"nan", "none"} \/ (v.t = "str" /\ Len(v.s) = 0)

RequiredTexts == {"Zone is required", "Country is required", "State/Province is required"}

\* C25: within a row, an empty Zone, Country or State is valid with a warning
\* and no error when the other two are empty as well, and invalid with the
\* error that the field is required when one of the other two is not.
C25_EmptyTriad ==
    all_results # <<>> =>
        \A f \in Triad :
            CellEmpty(LastRow[f]) =>
                /\ f \in DOMAIN LastResult.field_results
                /\ IF \A g \in Triad \ {f} : CellEmpty(LastRow[g])
                   THEN /\ LastField(f).is_valid
                        /\ LastField(f).errors = <<>>
                        /\ LastField(f).warnings # <<>>
                   ELSE /\ ~LastField(f).is_valid
                        /\ \E e \in 1..Len(LastField(f).errors) :
                              LastField(f).errors[e].text \in RequiredTexts

\* a row without Zone, Country and State, Country being '' : three warnings;
\* and rows with one of the three left out beside the others
C25_Witness ==
    /\ all_results # <<>>
    /\ \A f \in Triad : CellEmpty(LastRow[f])
    /\ LastRow["Country"] = Str(<<>>)
    /\ \A f \in Triad : LastField(f).is_valid /\ LastField(f).warnings # <<>>

C25_WitnessRequired ==
    /\ all_results # <<>>
    /\ CellEmpty(LastRow["State"]) /\ CellEmpty(LastRow["Zone"])
    /\ ~CellEmpty(LastRow["Country"])
    /\ ~LastField("State").is_valid /\ ~LastField("Zone").is_valid

-----------------------------------------------------------------------------
(* Families outside the list of common families (SpecField) *)

\* the Family of the last row is text of 1 to 20 characters, blanks around it
\* aside, and its validator has run
FamilyChecked ==
    /\ all_results # <<>>
    /\ "Family" \in DOMAIN LastResult.field_results
    /\ LastRow["Family"].t = "str"
    /\ Len(strip(LastRow["Family"].s)) \in 1..20

\* C26 (as claimed): a Family of at most 20 characters outside the list of
\* known families is valid, has a warning and is flagged needs_inat_check; a
\* Family of the list has no warning and no flag.
C26_UnknownFamilyFlagged ==
    FamilyChecked =>
        IF strip(LastRow["Family"].s) \in COMMON_FAMILIES
        THEN /\ LastField("Family").warnings = <<>>
             /\ "needs_inat_check" \notin LastField("Family").metadata.truthy
        ELSE /\ LastField("Family").is_valid
             /\ LastField("Family").warnings # <<>>
             /\ "needs_inat_check" \in LastField("Family").metadata.truthy

-----------------------------------------------------------------------------
(* The record-uniqueness pass behind skipped blank rows (Spec) *)

\* the rows validate_file kept; all_results[k] is the result of df_filtered[k]
KeptRows == 1..Len(df_filtered)

KeptField(i, column) == strip(str(df_filtered[i][column]))

KeptSameSpecies(i, j) ==
    /\ \A c \in {"Family", "Genus", "Species"} : KeptField(i, c) # <<>> /\ KeptField(j, c) # <<>>
    /\ \A c \in {"Family", "Genus", "Species", "Sub-species"} : KeptField(i, c) = KeptField(j, c)

KeptStateRivals(i) ==
    {j \in KeptRows : KeptSameSpecies(i, j) /\ IsAffirmative(df_filtered[j]["State Record"])}
KeptCountyRivals(i) ==
    {j \in KeptRows : /\ KeptSameSpecies(i, j)
                      /\ IsAffirmative(df_filtered[j]["County Record"])
                      /\ KeptField(i, "County") = KeptField(j, "County")}

\* kept row i comes before kept row j in the order of the pass
KeptBefore(i, j) ==
    LET di == parse_date(df_filtered[i]["First Date"])
        dj == parse_date(df_filtered[j]["First Date"])
    IN  IF di.none # dj.none THEN dj.none
        ELSE IF ~di.none /\ DateOrd(di) # DateOrd(dj) THEN DateOrd(di) < DateOrd(dj)
        ELSE i < j

\* a blank row of the file stands before a row that was kept
BlankRowSkippedBefore ==
    \E i \in 1..Len(df) : \E j \in (i + 1)..Len(df) : IsBlankRow(df[i]) /\ ~IsBlankRow(df[j])

\* the duplicate errors are on exactly the affirmative rows that are not the
\* earliest of their species (and County)
DuplicatesOnLaterRows ==
    \A i \in KeptRows :
        /\ DuplicateStateErrors(i) # {}
              <=> /\ IsAffirmative(df_filtered[i]["State Record"])
                  /\ \E j \in KeptStateRivals(i) \ {i} : KeptBefore(j, i)
        /\ DuplicateCountyErrors(i) # {}
              <=> /\ IsAffirmative(df_filtered[i]["County Record"])
                  /\ \E j \in KeptCountyRivals(i) \ {i} : KeptBefore(j, i)

\* C27 (as claimed): when validate_file skipped blank rows that stand before
\* other rows, the duplicate state and county record errors are on exactly
\* the affirmative rows that are not the earliest of their species group,
\* never on the earliest row or on a row of another species.
C27_DuplicatesBehindBlankRows ==
    (pc = "done" /\ BlankRowSkippedBefore) => DuplicatesOnLaterRows

-----------------------------------------------------------------------------
(* Failed fields in the saved workbook (Spec) *)

\* C28 (as claimed): a cell whose field validation failed (is_valid false with
\* at least one error) is presented in the error class or in the corrected
\* class of the saved workbook, never in the warning class or without a fill,
\* whatever correction its validator proposed.
C28_FailedCellSurfaced ==
    workbook.kind = "xlsx" =>
        \A i \in 1..Len(workbook.fills) : \A c \in Columns :
            ( /\ FieldInvalid(all_results[i], c)
              /\ all_results[i].field_results[c].errors # <<>> )
            => workbook.fills[i][c] \in {ErrorClass, CorrectedClass}

-----------------------------------------------------------------------------
(* Over-long locations (SpecRow) *)

\* the Specific Location of the last row is longer than 50 characters, blanks
\* around it aside
LocationTooLong ==
    /\ all_results # <<>>
    /\ ~IsBlank(LastRow["Specific Location"])
    /\ Len(strip(str(LastRow["Specific Location"]))) > 50

ExceedsText == "Location exceeds 50 characters: {}"

\* C29: for a Specific Location of more than 50 characters the field result is
\* invalid and carries the 'exceeds 50 characters' error whatever the oracle
\* did (a text of at most 50 characters taken as correction, a longer text,
\* a failure), and the row is not valid.
C29_LongLocationInvalid ==
    LocationTooLong =>
        /\ "Specific Location" \in DOMAIN LastResult.field_results
        /\ ~LastField("Specific Location").is_valid
        /\ \E e \in 1..Len(LastField("Specific Location").errors) :
              LastField("Specific Location").errors[e].text = ExceedsText
        /\ ~LastResult.is_valid

\* the oracle's text of at most 50 characters is the row's correction of the
\* location, and the row is invalid all the same
C29_Witness ==
    /\ LocationTooLong
    /\ "Specific Location" \in DOMAIN LastResult.corrections
    /\ LastResult.corrections["Specific Location"].t = "str"
    /\ Len(LastResult.corrections["Specific Location"].s) \in 1..50
    /\ LastField("Specific Location").correction_type = "correction"
    /\ ~LastResult.is_valid

-----------------------------------------------------------------------------
(* One First Date read by its validator and by the QA pass (SpecField) *)

\* the validator of First Date accepted the text of the last row as a date
FirstDateAccepted ==
    /\ all_results # <<>>
    /\ "First Date" \in DOMAIN LastResult.field_results
    /\ LastRow["First Date"].t = "str"
    /\ LastField("First Date").is_valid
    /\ "datetime" \in LastField("First Date").metadata.truthy

\* C30 (as claimed): a First Date its validator accepts as valid is read by
\* the date comparison of the QA pass as the same calendar date: it is not
\* unparseable there, and a two-digit year lands in the same century.
C30_SameDateInQA ==
    FirstDateAccepted =>
        /\ ~parse_date(LastRow["First Date"]).none
        /\ parse_date(LastRow["First Date"]) = ResolveDate(LastRow["First Date"]).date_obj

====
